---- MODULE Spec2Model ----
(***************************************************************************)
(* Fishing-forecast pipeline of mattmelloy/FishingForecast:                *)
(*   - the score engine        (src/src/services/weather.ts)               *)
(*   - the timeline builder    (src/src/services/weather.ts)               *)
(*   - the tide reconstructor  (src/src/services/tides.ts)                 *)
(*   - the fetch pipeline      (src/src/components/ForecastTimeline.tsx)   *)
(*   - the moon calculator     (src/src/services/moon.ts)                  *)
(*   - the client cache        (src/src/services/moon.ts, cache.ts part)   *)
(*   - the score breakdown     (src/src/components/ScoreInfo.tsx)          *)
(* Units: tide heights are integers in centimetres, tide instants are      *)
(* integers in hours, forecast timestamps are milliseconds (dt * 1000),    *)
(* precipitation and cloud cover are integers in percent.                  *)
(***************************************************************************)
EXTENDS Integers, Sequences, FiniteSets, TLC

VARIABLES
    phase,        \* which component this behaviour exercises, and how far it got
    weather,      \* score engine: the WeatherData snapshot
    tideInfo,     \* score engine: the TideInfo reading or NoTide (null)
    scored,       \* score engine: the scored point
    weatherData,  \* timeline builder: the raw provider payload
    tideData,     \* timeline builder: the shared tide reading or NoTide
    timeline,     \* timeline builder: what generateForecastTimeline gave its caller
    forecast,     \* timeline builder: the outcome of the caller, fetchForecastData
    rawData,      \* tide reconstructor: the marine provider's payload
    now,          \* tide reconstructor: the query instant (new Date())
    tideResult,   \* tide reconstructor: what getTideData returned
    calc,         \* tide reconstructor: the locals of calculateCurrentTide, if it ran
    weatherPromise, \* fetch pipeline: the promise of fetchWeatherData
    tidePromise,  \* fetch pipeline: the promise of getTideData
    date,         \* moon calculator: the instant getMoonPhase is asked about
    moonCalls,    \* moon calculator: the calls made so far, each with its wall clock
    storage,      \* client cache: localStorage, by cache key
    dateNow,      \* client cache: Date.now(), in hours
    cacheOp,      \* client cache: the last call of the cache and what it returned
    lastSet,      \* client cache: per cache key, what setCachedData last stored and when
    moonPhase, \* score breakdown: the moonPhase prop of ScoreInfo, or NoMoonPhase
    scoreFactors, \* score breakdown: the factors ScoreInfo lists
    apiCache, \* proxy server: the Map of cached responses, by req.originalUrl
    inflight, \* proxy server: per URL, the handlers awaiting fetchWithRetry
    response, \* proxy server: the last response sent, or NoResponse
    serverNow, \* proxy server: Date.now(), in minutes
    apiKey, \* proxy server: whether process.env holds the provider's API key
    served, \* proxy server: the requests received so far
    retryCall, \* proxy server: one call of fetchWithRetry, its locals and what it did
    circuitBreaker, \* circuit breaker: failures, lastFailure and isOpen of the shared object
    breakerCalls, \* circuit breaker: per caller, its current call of fetchWithRetry
    breakerNow, \* circuit breaker: Date.now(), in units of 15 s
    started \* circuit breaker: the calls started so far

vars == <<phase, weather, tideInfo, scored, weatherData, tideData, timeline,
          forecast, rawData, now, tideResult, calc, weatherPromise, tidePromise,
          date, moonCalls,
          storage, dateNow, cacheOp, lastSet,
          moonPhase, scoreFactors,
          apiCache, inflight, response, serverNow, apiKey, served,
          retryCall,
          circuitBreaker, breakerCalls, breakerNow, started>>

Max(a, b) == IF a >= b THEN a ELSE b
Min(a, b) == IF a <= b THEN a ELSE b

(***************************************************************************)
(* Score engine                                                            *)
(***************************************************************************)

\* tideInfo === null
\* findNextTide found nothing (undefined)
NoSample == [found |-> FALSE, time |-> 0]

\* A TideInfo (types.ts:36-42): height in cm, nan when the height is NaN.
TideInfoOf(h, isNaN, s, nh, nl) ==
    [present |-> TRUE, height |-> h, nan |-> isNaN, state |-> s,
     nextHigh |-> nh, nextLow |-> nl]

NoTide == [present |-> FALSE, height |-> 0, nan |-> FALSE, state |-> "none",
           nextHigh |-> NoSample, nextLow |-> NoSample]

TideReading(h, s) == TideInfoOf(h, FALSE, s, NoSample, NoSample)

calculateFishingScore_NoUpperClamp(w, t) ==
    LET wind   == IF w.windSpeed < 5 THEN 10
                  ELSE IF w.windSpeed > 20 THEN -20
                  ELSE IF w.windSpeed > 15 THEN -10 ELSE 0
        temp   == IF w.temperature >= 60 /\ w.temperature <= 75 THEN 10
                  ELSE IF w.temperature < 45 \/ w.temperature > 85 THEN -15
                  ELSE -5
        cloud  == IF w.cloudCover >= 40 /\ w.cloudCover <= 70 THEN 10
                  ELSE IF w.cloudCover > 90 THEN -5 ELSE 0
        precip == IF w.precipitation > 50 THEN -20
                  ELSE IF w.precipitation > 30 THEN -10 ELSE 0
        press  == IF w.pressure >= 1010 /\ w.pressure <= 1020 THEN 5 ELSE 0
        tstate == IF t.present /\ (t.state = "incoming" \/ t.state = "outgoing")
                  THEN 10 ELSE 0
        theight == IF t.present /\ ~t.nan /\ t.height > 50 /\ t.height < 200
                   THEN 5 ELSE 0
    IN  Max(0, 70 + wind + temp + cloud + precip + press + tstate + theight)

calculateFishingScore_PrecipInclusive(w, t) ==
    LET wind   == IF w.windSpeed < 5 THEN 10
                  ELSE IF w.windSpeed > 20 THEN -20
                  ELSE IF w.windSpeed > 15 THEN -10 ELSE 0
        temp   == IF w.temperature >= 60 /\ w.temperature <= 75 THEN 10
                  ELSE IF w.temperature < 45 \/ w.temperature > 85 THEN -15
                  ELSE -5
        cloud  == IF w.cloudCover >= 40 /\ w.cloudCover <= 70 THEN 10
                  ELSE IF w.cloudCover > 90 THEN -5 ELSE 0
        precip == IF w.precipitation > 50 THEN -20
                  ELSE IF w.precipitation >= 30 THEN -10 ELSE 0
        press  == IF w.pressure >= 1010 /\ w.pressure <= 1020 THEN 5 ELSE 0
        tstate == IF t.present /\ (t.state = "incoming" \/ t.state = "outgoing")
                  THEN 10 ELSE 0
        theight == IF t.present /\ ~t.nan /\ t.height > 50 /\ t.height < 200
                   THEN 5 ELSE 0
    IN  Max(0, Min(100, 70 + wind + temp + cloud + precip + press + tstate + theight))

\* weather.ts:63-66
WindAdjustment(w) ==
    IF w.windSpeed < 5 THEN 10
    ELSE IF w.windSpeed > 20 THEN -20
    ELSE IF w.windSpeed > 15 THEN -10 ELSE 0

TemperatureAdjustment_Harsh(w) ==
    IF w.temperature >= 60 /\ w.temperature <= 75 THEN 10
    ELSE IF w.temperature < 45 \/ w.temperature > 85 THEN -30
    ELSE -5

\* weather.ts:68-71
TemperatureAdjustment(w) ==
    IF w.temperature >= 60 /\ w.temperature <= 75 THEN 10
    ELSE IF w.temperature < 45 \/ w.temperature > 85 THEN -15
    ELSE -5

\* weather.ts:73-75
CloudAdjustment(w) ==
    IF w.cloudCover >= 40 /\ w.cloudCover <= 70 THEN 10
    ELSE IF w.cloudCover > 90 THEN -5 ELSE 0

\* weather.ts:77-79
PrecipitationAdjustment(w) ==
    IF w.precipitation > 50 THEN -20
    ELSE IF w.precipitation > 30 THEN -10 ELSE 0

\* weather.ts:81-82
PressureAdjustment(w) ==
    IF w.pressure >= 1010 /\ w.pressure <= 1020 THEN 5 ELSE 0

\* weather.ts:85-86
TideStateAdjustment(t) ==
    IF t.present /\ (t.state = "incoming" \/ t.state = "outgoing") THEN 10 ELSE 0

TideHeightAdjustment_OnlyMoving(t) ==
    IF /\ t.present /\ (t.state = "incoming" \/ t.state = "outgoing")
       /\ ~t.nan /\ t.height > 50 /\ t.height < 200
    THEN 5 ELSE 0

\* weather.ts:85 and 87
TideHeightAdjustment(t) ==
    IF t.present /\ ~t.nan /\ t.height > 50 /\ t.height < 200 THEN 5 ELSE 0

\* weather.ts:61-88: `score` before the clamp
UnclampedScore(w, t) ==
    70 + WindAdjustment(w) + TemperatureAdjustment(w) + CloudAdjustment(w)
       + PrecipitationAdjustment(w) + PressureAdjustment(w)
       + TideStateAdjustment(t) + TideHeightAdjustment(t)

\* weather.ts:60-92
calculateFishingScore(w, t) == Max(0, Min(100, UnclampedScore(w, t)))

\* weather.ts:106-151
generateReasons(w, t) ==
    (IF w.windSpeed < 5 THEN <<"Light winds under 5 mph - ideal for fishing">>
     ELSE IF w.windSpeed < 15 THEN <<"Moderate winds - good for surface activity">>
     ELSE <<"Strong winds may affect fishing conditions">>)
    \o (IF w.temperature >= 60 /\ w.temperature <= 75
        THEN <<"Optimal water temperature for fish activity">>
        ELSE IF w.temperature < 45
        THEN <<"Cold temperatures may reduce fish activity">>
        ELSE IF w.temperature > 85
        THEN <<"Warm temperatures - fish may be deeper in water">>
        ELSE <<>>)
    \o (IF w.cloudCover >= 40 /\ w.cloudCover <= 70
        THEN <<"Partial cloud cover providing good visibility">>
        ELSE IF w.cloudCover > 90
        THEN <<"Heavy cloud cover may affect fish feeding">>
        ELSE <<>>)
    \o (IF w.precipitation > 50
        THEN <<"High chance of rain may affect water conditions">>
        ELSE IF w.precipitation < 20 THEN <<"Clear weather conditions">>
        ELSE <<>>)
    \o (IF t.present /\ t.state = "incoming"
        THEN <<"Incoming tide bringing food sources">>
        ELSE IF t.present /\ t.state = "outgoing"
        THEN <<"Outgoing tide concentrating fish in deeper areas">>
        ELSE <<>>)

determineCondition_StrictGood(score) ==
    IF score > 70 THEN "Good" ELSE IF score >= 40 THEN "Okay" ELSE "Poor"

\* weather.ts:94-98
determineCondition(score) ==
    IF score >= 70 THEN "Good" ELSE IF score >= 40 THEN "Okay" ELSE "Poor"

\* The fields of a TimelinePoint that scoring decides (weather.ts:175-185, 205-215).
ScorePointOf(ts, w, t) ==
    LET s == calculateFishingScore(w, t)
    IN  [timestamp |-> ts, score |-> s, condition |-> determineCondition(s),
         weather |-> w, tide |-> t, reasons |-> generateReasons(w, t)]

\* Inputs of the score engine: every band of every factor, with both sides of
\* every threshold.
WindSpeeds     == {3, 5, 14, 15, 16, 20, 21, 25}
Temperatures   == {44, 45, 59, 60, 68, 75, 76, 85, 86, 95}
CloudCovers    == {39, 40, 55, 70, 71, 90, 91, 95}
Precipitations == {10, 30, 31, 50, 51, 60}
Pressures      == {990, 1009, 1010, 1015, 1020, 1021}
TideReadings   == {TideReading(h, "incoming") : h \in {30, 50, 51, 199, 200}}
                    \cup {TideReading(h, "slack") : h \in {30, 120}}
                    \cup {TideReading(120, "outgoing")}

WeatherSnapshots ==
    [windSpeed : WindSpeeds, temperature : Temperatures, cloudCover : CloudCovers,
     precipitation : Precipitations, pressure : Pressures]

NoWeather == [windSpeed |-> 0, temperature |-> 0, cloudCover |-> 0,
              precipitation |-> 0, pressure |-> 0]

NotScored == [timestamp |-> 0, score |-> 0, condition |-> "none",
              weather |-> NoWeather, tide |-> NoTide, reasons |-> <<>>]

(***************************************************************************)
(* Timeline builder                                                        *)
(***************************************************************************)

\* A raw provider item (the current-conditions object or one forecast step).
\* present = FALSE is a null entry; hasMain, hasWind, hasClouds say whether
\* the sub-objects `main`, `wind`, `clouds` exist; precip is `rain ? 100 : 0`
\* of the current object and `pop` in hundredths of a forecast step.
RawItem(p, dt, m, w, c, speed, temp, pressure, all, precip) ==
    [present |-> p, dt |-> dt, hasMain |-> m, hasWind |-> w, hasClouds |-> c,
     speed |-> speed, temp |-> temp, pressure |-> pressure, all |-> all,
     precip |-> precip]

NullItem == RawItem(FALSE, 0, FALSE, FALSE, FALSE, 0, 0, 0, 0, 0)

\* item without the sub-object `what`
Without(item, what) ==
    CASE what = "none"   -> item
      [] what = "main"   -> [item EXCEPT !.hasMain = FALSE, !.temp = 0, !.pressure = 0]
      [] what = "wind"   -> [item EXCEPT !.hasWind = FALSE, !.speed = 0]
      [] what = "clouds" -> [item EXCEPT !.hasClouds = FALSE, !.all = 0]

\* `x || 1013`
PressureOr1013(x) == IF x = 0 THEN 1013 ELSE x

\* weather.ts:164-171: the current snapshot "with safe fallbacks"
CurrentWeatherOf(cur) ==
    [windSpeed     |-> IF cur.hasWind THEN cur.speed ELSE 0,
     temperature   |-> IF cur.hasMain THEN cur.temp ELSE 0,
     precipitation |-> cur.precip,
     cloudCover    |-> IF cur.hasClouds THEN cur.all ELSE 0,
     pressure      |-> IF cur.hasMain THEN PressureOr1013(cur.pressure) ELSE 1013]

\* weather.ts:194-201 (only reached with main, wind and clouds present)
ItemWeatherOf(item) ==
    [windSpeed     |-> item.speed,
     temperature   |-> item.temp,
     precipitation |-> item.precip,
     cloudCover    |-> item.all,
     pressure      |-> PressureOr1013(item.pressure)]

InvalidItem_IgnoresClouds(item) ==
    ~item.present \/ ~item.hasMain \/ ~item.hasWind

\* weather.ts:189: !item?.main || !item?.wind || !item?.clouds
InvalidItem(item) ==
    ~item.present \/ ~item.hasMain \/ ~item.hasWind \/ ~item.hasClouds

\* new Date(dt * 1000).getTime()
TimestampOf(dt) == dt * 1000

InvalidStructure_RequiresWind(wd) ==
    ~wd.hasCurrent \/ ~wd.hasList \/ ~wd.current.hasWind

\* weather.ts:158: !weatherData?.current || !weatherData?.forecast?.list
InvalidStructure(wd) == ~wd.hasCurrent \/ ~wd.hasList

AssemblePoints_CurrentLast(cur, steps) == steps \o <<cur>>

\* weather.ts:177 and 207: points.push in program order, the current point first
AssemblePoints(cur, steps) == <<cur>> \o steps

\* weather.ts:188-216: forEach over forecast.list, skipping invalid items
ForecastPoints(list, td) ==
    LET kept == SelectSeq(list, LAMBDA item : ~InvalidItem(item))
    IN  [i \in 1..Len(kept) |->
            ScorePointOf(TimestampOf(kept[i].dt), ItemWeatherOf(kept[i]), td)]

generateForecastTimeline_ListFallback(wd, td) ==
    IF ~wd.hasCurrent
    THEN [status |-> "error", message |-> "Failed to process weather forecast data",
          points |-> <<>>]
    ELSE [status |-> "ok", message |-> "",
          points |-> AssemblePoints(
              ScorePointOf(TimestampOf(wd.current.dt), CurrentWeatherOf(wd.current), td),
              ForecastPoints(wd.list, td))]

\* weather.ts:153-223. Every throw inside the try is rethrown by the catch as
\* one error; `points` is local, so the caller gets either all of it or none.
generateForecastTimeline(wd, td) ==
    IF InvalidStructure(wd)
    THEN [status |-> "error", message |-> "Failed to process weather forecast data",
          points |-> <<>>]
    ELSE [status |-> "ok", message |-> "",
          points |-> AssemblePoints(
              ScorePointOf(TimestampOf(wd.current.dt), CurrentWeatherOf(wd.current), td),
              ForecastPoints(wd.list, td))]

\* ForecastTimeline.tsx:506-525: the caller of generateForecastTimeline
fetchForecastDataJoin(wd, td) ==
    LET tl == generateForecastTimeline(wd, td)
    IN  IF tl.status = "error"
        THEN [status |-> "rejected", message |-> tl.message, points |-> <<>>]
        ELSE IF Len(tl.points) = 0
        THEN [status |-> "rejected", message |-> "Failed to generate forecast timeline",
              points |-> <<>>]
        ELSE [status |-> "resolved", message |-> "", points |-> tl.points]

\* Inputs of the timeline builder.
MaxSteps == 3

CurrentDts  == {2}
ForecastDts == {1, 3}

\* current conditions scoring 100, 70, 65, 40, 35 and 15 without tide
CurrentSnapshots ==
    UNION {{ RawItem(TRUE, dt, TRUE, TRUE, TRUE,  3, 68, 1015, 55,   0),
             RawItem(TRUE, dt, TRUE, TRUE, TRUE, 10, 50, 1015, 80,   0),
             RawItem(TRUE, dt, TRUE, TRUE, TRUE, 10, 50, 1000, 80,   0),
             RawItem(TRUE, dt, TRUE, TRUE, TRUE, 25, 50, 1000, 95,   0),
             RawItem(TRUE, dt, TRUE, TRUE, TRUE, 25, 95, 1000, 80,   0),
             RawItem(TRUE, dt, TRUE, TRUE, TRUE, 25, 95, 1015, 95, 100) } :
           dt \in CurrentDts}

\* the forecast scenario: what the provider reports for instant dt
ForecastAt(dt) ==
    IF dt = 1 THEN RawItem(TRUE, dt, TRUE, TRUE, TRUE, 25, 50, 1000, 95, 0)
              ELSE RawItem(TRUE, dt, TRUE, TRUE, TRUE, 16, 62, 1015, 30, 40)

SubObjects == {"none", "main", "wind", "clouds"}

CurrentItems  == {Without(c, what) : c \in CurrentSnapshots, what \in SubObjects}
ForecastItems == {Without(ForecastAt(dt), what) : dt \in ForecastDts, what \in SubObjects}

ForecastLists == UNION {[1..n -> ForecastItems] : n \in 0..MaxSteps}

WeatherDatas ==
    [hasCurrent : {TRUE}, hasList : {TRUE}, current : CurrentItems, list : ForecastLists]
      \cup [hasCurrent : {FALSE}, hasList : {TRUE}, current : {NullItem}, list : ForecastLists]
      \cup [hasCurrent : {TRUE, FALSE}, hasList : {FALSE}, current : CurrentSnapshots, list : {<<>>}]

NoWeatherData == [hasCurrent |-> FALSE, hasList |-> FALSE, current |-> NullItem,
                  list |-> <<>>]

NoTimeline == [status |-> "none", message |-> "", points |-> <<>>]

(***************************************************************************)
(* Tide reconstructor                                                      *)
(***************************************************************************)

\* One day, in the unit of the instants (hours): Date.setDate(getDate() +- 1).
DAY == 24

\* parseFloat on the provider's tideHeight_mt strings, in centimetres
parseFloat(str) ==
    CASE str = "0.20"  -> [nan |-> FALSE, value |-> 20]
      [] str = "0.25"  -> [nan |-> FALSE, value |-> 25]
      [] str = "0.30"  -> [nan |-> FALSE, value |-> 30]
      [] str = "1.10"  -> [nan |-> FALSE, value |-> 110]
      [] str = "1.00"  -> [nan |-> FALSE, value |-> 100]
      [] str = "0.00"  -> [nan |-> FALSE, value |-> 0]
      [] str = "-0.30" -> [nan |-> FALSE, value |-> -30]
      [] OTHER         -> [nan |-> TRUE,  value |-> 0]

toUpperCase(str) ==
    CASE str = "high" -> "HIGH"
      [] str = "low"  -> "LOW"
      [] OTHER        -> str

RawTide(t, h, ty) == [tideDateTime |-> t, tideHeight_mt |-> h, tide_type |-> ty]

\* tides.ts:61-65
MapTide(raw) ==
    LET h == parseFloat(raw.tideHeight_mt)
    IN  [time |-> raw.tideDateTime, height |-> h.value, nan |-> h.nan,
         type |-> toUpperCase(raw.tide_type)]

ValidTide_AllowsZero(tide) == ~tide.nan /\ tide.height >= 0

\* tides.ts:66: !isNaN(tide.height) && tide.height > 0
ValidTide(tide) == ~tide.nan /\ tide.height > 0

\* x put into the time-sorted s after the samples that are not later than it
InsertByTime(x, s) ==
    LET k == Cardinality({i \in DOMAIN s : s[i].time <= x.time})
    IN  SubSeq(s, 1, k) \o <<x>> \o SubSeq(s, k + 1, Len(s))

RECURSIVE SortByTime(_)
\* tides.ts:67: the (stable) sort by time
SortByTime(s) ==
    IF s = <<>> THEN <<>>
    ELSE InsertByTime(s[Len(s)], SortByTime(SubSeq(s, 1, Len(s) - 1)))

\* tides.ts:56-67
AllTides(rd) ==
    LET both   == rd.today \o rd.tomorrow
        mapped == [i \in 1..Len(both) |-> MapTide(both[i])]
    IN  SortByTime(SelectSeq(mapped, ValidTide))

findNextTide_Inclusive(td, type, ct) ==
    LET hits == {i \in DOMAIN td : td[i].type = type /\ td[i].time >= ct}
    IN  IF hits = {} THEN NoSample
        ELSE [found |-> TRUE,
              time |-> td[CHOOSE i \in hits : \A j \in hits : i <= j].time]

\* tides.ts:107-111
findNextTide(td, type, ct) ==
    LET hits == {i \in DOMAIN td : td[i].type = type /\ td[i].time > ct}
    IN  IF hits = {} THEN NoSample
        ELSE [found |-> TRUE,
              time |-> td[CHOOSE i \in hits : \A j \in hits : i <= j].time]

\* A progress value: NaN, or the fraction num / den with den > 0.
Fraction(n, d) == [nan |-> FALSE, num |-> n, den |-> d]
NaNFraction    == [nan |-> TRUE, num |-> 0, den |-> 1]

\* tides.ts:154: Math.max(0, Math.min(1, elapsedTime / totalDuration))
ClampedProgress(elapsedTime, totalDuration) ==
    IF totalDuration = 0
    THEN IF elapsedTime = 0 THEN NaNFraction
         ELSE IF elapsedTime > 0 THEN Fraction(1, 1) ELSE Fraction(0, 1)
    ELSE LET n == IF totalDuration > 0 THEN elapsedTime ELSE -elapsedTime
             d == IF totalDuration > 0 THEN totalDuration ELSE -totalDuration
         IN  IF n <= 0 THEN Fraction(0, 1)
             ELSE IF n >= d THEN Fraction(1, 1)
             ELSE Fraction(n, d)

\* The <<h1, h2, n, d>>, over the heights parseFloat yields here, for which the
\* exact height at progress n / d lies halfway between two centimetres and the
\* double the code computes lies below it: from 0.3 to 1.1 at 1/4 the code
\* gets 0.425 (the double 0.42499999999999998...), from 1.0 to 0.2 at 3/4 it
\* gets 0.32499999999999996.
DoubleBelowHalfway == {<<30, 110, 1, 4>>, <<100, 20, 3, 4>>}

\* An interpolated height: NaN, or num / den centimetres; below says that the
\* double lies under that exact value.
HeightOf(n, d, b) == [nan |-> FALSE, num |-> n, den |-> d, below |-> b]
NaNHeight         == [nan |-> TRUE, num |-> 0, den |-> 1, below |-> FALSE]

interpolateTideHeight_Linear(h1, h2, progress) ==
    IF progress.nan THEN NaNHeight
    ELSE HeightOf(h1 * progress.den + (h2 - h1) * progress.num, progress.den, FALSE)

\* tides.ts:168-177: h1 + (h2 - h1) * (-2*p3 + 3*p2)
interpolateTideHeight(h1, h2, progress) ==
    IF progress.nan THEN NaNHeight
    ELSE LET n == progress.num
             d == progress.den
         IN  HeightOf(h1 * d * d * d + (h2 - h1) * (3 * n * n * d - 2 * n * n * n),
                      d * d * d,
                      \E k \in DoubleBelowHalfway :
                          k[1] = h1 /\ k[2] = h2 /\ n * k[4] = d * k[3])

\* tides.ts:163: Number(height.toFixed(2)), the nearest centimetre; toFixed
\* takes the larger of two equally near values of the double it is given.
toFixed2(h) ==
    IF h.nan THEN [nan |-> TRUE, value |-> 0]
    ELSE LET up == (2 * h.num + h.den) \div (2 * h.den)
         IN  [nan |-> FALSE,
              value |-> IF h.below /\ 2 * h.num + h.den = 2 * h.den * up
                        THEN up - 1 ELSE up]

\* progress < 0.5 (false for NaN)
BelowHalf(progress) == ~progress.nan /\ 2 * progress.num < progress.den

\* The pairs <<h1, h2>> of heights parseFloat yields here that are 10 cm apart
\* and whose difference h2 - h1, computed in IEEE-754 doubles as the code
\* computes it, is nearer zero than the double 0.1:
\* 0.3 - 0.2 = 0.09999999999999998, while 1.1 - 1.0 = 0.10000000000000009.
RoundsBelowThreshold == {<<20, 30>>, <<30, 20>>}

\* tides.ts:191-196: Math.abs(nextTide.height - prevTide.height) < 0.1, in doubles
WithinThreshold(h1, h2) ==
    LET abs == IF h2 - h1 < 0 THEN h1 - h2 ELSE h2 - h1
    IN  abs < 10 \/ (abs = 10 /\ <<h1, h2>> \in RoundsBelowThreshold)

\* tides.ts:179-202
determineTideState(prevTide, nextTide, progress) ==
    IF prevTide.type = "HIGH" /\ nextTide.type = "LOW" THEN "outgoing"
    ELSE IF prevTide.type = "LOW" /\ nextTide.type = "HIGH" THEN "incoming"
    ELSE IF WithinThreshold(prevTide.height, nextTide.height)
         THEN IF BelowHalf(progress) THEN "incoming" ELSE "outgoing"
         ELSE IF nextTide.height - prevTide.height > 0 THEN "incoming" ELSE "outgoing"

SurroundingIndex_Strict(td, ct) ==
    LET hits == {i \in 1..(Len(td) - 1) : td[i].time < ct /\ td[i + 1].time > ct}
    IN  IF hits = {} THEN 0 ELSE CHOOSE i \in hits : \A j \in hits : i <= j

\* tides.ts:118-124: the first i with tideData[i].time <= now < tideData[i+1].time
SurroundingIndex(td, ct) ==
    LET hits == {i \in 1..(Len(td) - 1) : td[i].time <= ct /\ td[i + 1].time > ct}
    IN  IF hits = {} THEN 0 ELSE CHOOSE i \in hits : \A j \in hits : i <= j

\* tides.ts:130-136: the last sample, at the first sample's time one day earlier
PrevBeforeFirst(td) ==
    [td[Len(td)] EXCEPT !.time = td[1].time - DAY]

\* tides.ts:140-147: the first sample, one day later
NextAfterLast(td) ==
    [td[1] EXCEPT !.time = td[1].time + DAY]

\* tides.ts:114-149: the pair of samples interpolated between
SurroundingPair(td, ct) ==
    LET i == SurroundingIndex(td, ct)
    IN  IF i # 0 THEN [prev |-> td[i], next |-> td[i + 1]]
        ELSE IF ct < td[1].time THEN [prev |-> PrevBeforeFirst(td), next |-> td[1]]
        ELSE [prev |-> td[Len(td)], next |-> NextAfterLast(td)]

\* tides.ts:113-166, with its locals
calculateCurrentTide(td, ct) ==
    LET pair          == SurroundingPair(td, ct)
        totalDuration == pair.next.time - pair.prev.time
        elapsedTime   == ct - pair.prev.time
        progress      == ClampedProgress(elapsedTime, totalDuration)
        height        == interpolateTideHeight(pair.prev.height, pair.next.height, progress)
    IN  [invoked |-> TRUE, n |-> Len(td), prev |-> pair.prev, next |-> pair.next,
         totalDuration |-> totalDuration, elapsedTime |-> elapsedTime,
         progress |-> progress, height |-> toFixed2(height),
         state |-> determineTideState(pair.prev, pair.next, progress)]

NoTideSample == [time |-> 0, height |-> 0, nan |-> FALSE, type |-> "none"]

NoCalc == [invoked |-> FALSE, n |-> 0, prev |-> NoTideSample, next |-> NoTideSample,
           totalDuration |-> 0, elapsedTime |-> 0, progress |-> Fraction(0, 1),
           height |-> [nan |-> FALSE, value |-> 0], state |-> "none"]

\* tides.ts:69: allTides.length < 2
MinSamples == 2

\* tides.ts:48-53 and 69-73: the response holds no reading
NoReading(rd) == Len(rd.today) = 0 \/ Len(AllTides(rd)) < MinSamples

\* tides.ts:75-78: the locals of calculateCurrentTide when getTideData calls it
getTideDataCalc(rd, ct) ==
    IF NoReading(rd) THEN NoCalc ELSE calculateCurrentTide(AllTides(rd), ct)

\* tides.ts:46-98: getTideData once the provider has answered with rd
getTideData(rd, ct) ==
    IF NoReading(rd) THEN [status |-> "returned", data |-> NoTide]
    ELSE LET c == calculateCurrentTide(AllTides(rd), ct)
         IN  [status |-> "returned",
              data |-> TideInfoOf(c.height.value, c.height.nan, c.state,
                                  findNextTide(AllTides(rd), "HIGH", ct),
                                  findNextTide(AllTides(rd), "LOW", ct))]

\* Inputs of the tide reconstructor.
MaxTides == 3

\* samples with valid and invalid heights
FilterSamples ==
    {RawTide(t, h, "high") : t \in {6, 12}, h \in {"abc", "0.00", "-0.30", "1.00"}}

\* valid samples over two days, in any order
CycleSamples ==
    {RawTide(t, "1.00", "HIGH") : t \in {6, 12, 18, 30}}
      \cup {RawTide(t, "0.20", "LOW") : t \in {6, 12, 18, 30}}

\* two samples six hours apart, of every type and of heights on both sides
\* of the 0.1 m threshold
CurveHeights == {"0.20", "0.25", "0.30", "1.00", "1.10"}

CurvePayloads ==
    {[today |-> <<RawTide(6, h1, t1), RawTide(12, h2, t2)>>, tomorrow |-> <<>>] :
        h1 \in CurveHeights, h2 \in CurveHeights,
        t1 \in {"HIGH", "LOW"}, t2 \in {"HIGH", "LOW"}}

SampleLists(S) == UNION {[1..n -> S] : n \in 0..MaxTides}

\* every way to give a list as today's samples followed by tomorrow's
Payloads(S) ==
    UNION {{[today |-> SubSeq(l, 1, k), tomorrow |-> SubSeq(l, k + 1, Len(l))] :
               k \in 0..Len(l)} : l \in SampleLists(S)}

NoRawData == [today |-> <<>>, tomorrow |-> <<>>]

NoTideResult == [status |-> "none", data |-> NoTide]

(***************************************************************************)
(* Fetch pipeline                                                          *)
(***************************************************************************)

\* a promise: "pending", "fulfilled" or "rejected" with the error's message
Promise(st, msg) == [state |-> st, message |-> msg]

NoPromise == Promise("none", "")
Pending   == Promise("pending", "")

\* `message || fallback`
MessageOr(msg, fallback) == IF msg = "" THEN fallback ELSE msg

\* what a provider can answer: no connection, an error status, a body that
\* is not JSON, or a JSON body
Answer(kind, body) == [kind |-> kind, body |-> body]

\* weather.ts:42-45: !currentData?.main || !forecastData?.list?.length
InvalidWeatherData(wd) ==
    \/ ~wd.hasCurrent \/ ~wd.current.present \/ ~wd.current.hasMain
    \/ ~wd.hasList \/ Len(wd.list) = 0

\* weather.ts:4-58: how the promise of fetchWeatherData settles on an answer
fetchWeatherData(ans) ==
    CASE ans.kind = "network" ->
            [promise |-> Promise("rejected", "Network error - please check your connection"),
             value |-> NoWeatherData]
      [] ans.kind = "status" ->
            [promise |-> Promise("rejected", "Weather service error (500)"),
             value |-> NoWeatherData]
      [] ans.kind = "syntax" ->
            [promise |-> Promise("rejected", "Unexpected token"),
             value |-> NoWeatherData]
      [] OTHER ->
            IF InvalidWeatherData(ans.body)
            THEN [promise |-> Promise("rejected", "Invalid weather data received"),
                  value |-> NoWeatherData]
            ELSE [promise |-> Promise("fulfilled", ""), value |-> ans.body]

\* tides.ts:7-105: how the promise of getTideData settles on an answer
getTideDataPromise(ans, ct) ==
    CASE ans.kind = "nokey" ->
            [promise |-> Promise("rejected", "Marine API key is not configured"),
             value |-> NoTideResult]
      [] ans.kind = "network" ->
            [promise |-> Promise("rejected", "Network error - please check your connection"),
             value |-> NoTideResult]
      [] ans.kind = "401" ->
            [promise |-> Promise("rejected", "Invalid Marine API key"),
             value |-> NoTideResult]
      [] ans.kind = "429" ->
            [promise |-> Promise("rejected", "Marine API rate limit exceeded"),
             value |-> NoTideResult]
      [] ans.kind = "status" ->
            [promise |-> Promise("rejected", "Marine service error (500)"),
             value |-> NoTideResult]
      [] ans.kind = "syntax" ->
            [promise |-> Promise("rejected", "Unexpected token"),
             value |-> NoTideResult]
      [] OTHER ->
            [promise |-> Promise("fulfilled", ""), value |-> getTideData(ans.body, ct)]

TideCatch_Rethrows(p) == p

\* ForecastTimeline.tsx:499-503: getTideData(...).catch(error => ({data: null}))
TideCatch(p) ==
    IF p.promise.state = "rejected"
    THEN [promise |-> Promise("fulfilled", ""),
          value |-> [status |-> "returned", data |-> NoTide]]
    ELSE p

\* ForecastTimeline.tsx:495-498: fetchWeatherData(...).catch(error => throw)
WeatherCatch(p) ==
    IF p.promise.state = "rejected"
    THEN [promise |-> Promise("rejected",
                              MessageOr(p.promise.message, "Failed to fetch weather data")),
          value |-> p.value]
    ELSE p

\* ForecastTimeline.tsx:521-525: the catch of fetchForecastData
Rejection(msg) ==
    [status |-> "rejected", message |-> MessageOr(msg, "An unexpected error occurred"),
     points |-> <<>>]

PromiseAll_WeatherOnly(wp, tp) ==
    IF wp.state = "rejected" THEN "rejected"
    ELSE IF wp.state = "fulfilled" THEN "fulfilled"
    ELSE "pending"

\* ForecastTimeline.tsx:494-504: Promise.all over the weather promise and the
\* tide promise behind its .catch; "pending", "fulfilled" or "rejected"
PromiseAll(wp, tp) ==
    IF wp.state = "rejected" THEN "rejected"
    ELSE IF tp.state = "rejected" THEN "rejected"
    ELSE IF wp.state = "fulfilled" /\ tp.state = "fulfilled" THEN "fulfilled"
    ELSE "pending"

\* Inputs of the fetch pipeline.
FetchedWeatherDatas ==
    [hasCurrent : {TRUE}, hasList : {TRUE}, current : CurrentItems,
     list : [1..1 -> ForecastItems] \cup {<<>>}]
      \cup {NoWeatherData}

WeatherAnswers ==
    {Answer(k, NoWeatherData) : k \in {"network", "status", "syntax"}}
      \cup {Answer("body", wd) : wd \in FetchedWeatherDatas}

FetchedPayloads ==
    {NoRawData,
     [today |-> <<RawTide(6, "1.00", "HIGH"), RawTide(12, "0.20", "LOW")>>,
      tomorrow |-> <<>>],
     [today |-> <<RawTide(6, "0.20", "LOW")>>,
      tomorrow |-> <<RawTide(30, "1.10", "HIGH")>>]}

TideAnswers ==
    {Answer(k, NoRawData) : k \in {"nokey", "network", "401", "429", "status", "syntax"}}
      \cup {Answer("body", rd) : rd \in FetchedPayloads}

(***************************************************************************)
(* Moon calculator                                                         *)
(***************************************************************************)

\* An instant, by its distance from the new moon of 2000-01-06T18:14Z
\* (moon.ts:5): `months` synodic months of 29.530588853 days plus `days`
\* hundred-thousandths of a day (864 ms), before or after it. Ages, and the
\* wall clock, are in hundred-thousandths of a day as well.
MoonDate(b, m, d) == [before |-> b, months |-> m, days |-> d]

NoDate == MoonDate(FALSE, 0, 0)

\* moon.ts:3-13: daysSinceNewMoon % synodicMonth has the sign of the dividend
getMoonAge(dt) == IF dt.before THEN 0 - dt.days ELSE dt.days

PhaseOf_Inclusive(age) ==
    IF age <= 184566 THEN "New Moon"
    ELSE IF age <= 553699 THEN "Waxing Crescent"
    ELSE IF age <= 922831 THEN "First Quarter"
    ELSE IF age <= 1291963 THEN "Waxing Gibbous"
    ELSE IF age <= 1661096 THEN "Full Moon"
    ELSE IF age <= 2030228 THEN "Waning Gibbous"
    ELSE IF age <= 2399361 THEN "Last Quarter"
    ELSE IF age <= 2768493 THEN "Waning Crescent"
    ELSE "New Moon"

\* moon.ts:31-40
PhaseOf(age) ==
    IF age < 184566 THEN "New Moon"
    ELSE IF age < 553699 THEN "Waxing Crescent"
    ELSE IF age < 922831 THEN "First Quarter"
    ELSE IF age < 1291963 THEN "Waxing Gibbous"
    ELSE IF age < 1661096 THEN "Full Moon"
    ELSE IF age < 2030228 THEN "Waning Gibbous"
    ELSE IF age < 2399361 THEN "Last Quarter"
    ELSE IF age < 2768493 THEN "Waning Crescent"
    ELSE "New Moon"

\* moon.ts:29 and 48: Math.round((cos(age / 29.530588853 * 2 pi - pi) * 0.5
\* + 0.5) * 100), an even function of the age, on the ages of MoonDates
IlluminationOf(age) ==
    LET a == IF age < 0 THEN 0 - age ELSE age
    IN
    CASE a = 0 -> 0
      [] a = 1 -> 0
      [] a = 100000 -> 1
      [] a = 184565 -> 4
      [] a = 184566 -> 4
      [] a = 184567 -> 4
      [] a = 553698 -> 31
      [] a = 553699 -> 31
      [] a = 553700 -> 31
      [] a = 922830 -> 69
      [] a = 922831 -> 69
      [] a = 922832 -> 69
      [] a = 1291962 -> 96
      [] a = 1291963 -> 96
      [] a = 1291964 -> 96
      [] a = 1476500 -> 100
      [] a = 1476501 -> 100
      [] a = 1500000 -> 100
      [] a = 1661095 -> 96
      [] a = 1661096 -> 96
      [] a = 1661097 -> 96
      [] a = 2030227 -> 69
      [] a = 2030228 -> 69
      [] a = 2030229 -> 69
      [] a = 2399360 -> 31
      [] a = 2399361 -> 31
      [] a = 2399362 -> 31
      [] a = 2768492 -> 4
      [] a = 2768493 -> 4
      [] a = 2768494 -> 4
      [] a = 2900000 -> 0
      [] a = 2953058 -> 0

\* moon.ts:49: Math.round(age * 10) / 10, in tenths of a day
RoundedAgeOf(age) == (age + 5000) \div 10000

\* moon.ts:15-25: the target age is targetMonths synodic months plus
\* targetDays; the result is `time` plus `months` synodic months
getNextPhaseDate(currentAge, targetDays, targetMonths, clock) ==
    LET daysUntilPhase == targetDays - currentAge
    IN  [time |-> clock + daysUntilPhase,
         months |-> IF targetMonths = 0 /\ daysUntilPhase < 0 THEN 1 ELSE targetMonths]

\* moon.ts:27-53, called when the wall clock (new Date()) reads `clock`
getMoonPhase(dt, clock) ==
    LET age == getMoonAge(dt)
    IN  [phase |-> PhaseOf(age),
         illumination |-> IlluminationOf(age),
         age |-> RoundedAgeOf(age),
         nextFullMoon |-> getNextPhaseDate(age, 1476500, 0, clock),
         nextNewMoon |-> getNextPhaseDate(age, 0, 1, clock)]

\* Inputs of the moon calculator.
MaxCalls == 2

\* both sides of every threshold, the new moon, the full moon, the last age
BandAges ==
    UNION {{t - 1, t, t + 1} : t \in {184566, 553699, 922831, 1291963, 1661096,
                                      2030228, 2399361, 2768493}}
      \cup {0, 1, 100000, 1476500, 1476501, 1500000, 2900000, 2953058}

CycleAges == {1, 100000, 1500000, 2900000}

MoonDates ==
    {MoonDate(FALSE, 0, d) : d \in BandAges}
      \cup {MoonDate(FALSE, m, d) : m \in {1, 3}, d \in CycleAges \cup {0}}
      \cup {MoonDate(TRUE, m, d) : m \in {0, 1}, d \in CycleAges}

Clocks == {0, 50000, 100000}

(***************************************************************************)
(* Client cache                                                            *)
(***************************************************************************)

\* moon.ts:62: 1 hour, in the unit of the clock
CACHE_DURATION == 1

\* tides.ts:84-94: what getTideData returns and caches, { data, raw }
TideResultOf(rd, ct) == [data |-> getTideData(rd, ct).data, raw |-> rd]

NoCacheValue == [data |-> NoTide, raw |-> NoRawData]

\* moon.ts:66-67 and 94-95: `fishing-forecast-${key}-${coordString}`
CacheKeyOf(key, coordString) == <<key, coordString>>

CacheEntry(data, timestamp, coordString) ==
    [data |-> data, timestamp |-> timestamp, coordinates |-> coordString]

\* what localStorage holds under a key: nothing, a text that is not an entry,
\* or the text of an entry
Absent  == [kind |-> "absent",  json |-> CacheEntry(NoCacheValue, 0, "")]
Corrupt == [kind |-> "corrupt", json |-> CacheEntry(NoCacheValue, 0, "")]

\* JSON.stringify of a Date: its ISO string
JSONDate(d) == IF d.found THEN [found |-> TRUE, time |-> d.time, iso |-> TRUE] ELSE d

\* moon.ts:102: JSON.stringify(entry), for an entry holding a tide result whose
\* height is a number; null (no reading) and undefined (no next tide) stay
JSONStringify(entry) ==
    [kind |-> "text",
     json |-> [entry EXCEPT !.data.data.nextHigh = JSONDate(@),
                            !.data.data.nextLow  = JSONDate(@)]]

\* moon.ts:72: JSON.parse; strings stay strings
JSONParse(text) == text.json

\* moon.ts:65-81: the try block of getCachedData at instant t; getItemFails
\* says that localStorage.getItem throws
getCachedDataTry(st, key, coordString, t, getItemFails) ==
    LET cached == st[CacheKeyOf(key, coordString)]
    IN  IF getItemFails THEN [outcome |-> "throw", data |-> NoCacheValue, remove |-> FALSE]
        ELSE IF cached = Absent
        THEN [outcome |-> "null", data |-> NoCacheValue, remove |-> FALSE]
        ELSE IF cached = Corrupt
        THEN [outcome |-> "throw", data |-> NoCacheValue, remove |-> FALSE]
        ELSE LET entry == JSONParse(cached)
             IN  IF t - entry.timestamp > CACHE_DURATION \/ entry.coordinates # coordString
                 THEN [outcome |-> "null", data |-> NoCacheValue, remove |-> TRUE]
                 ELSE [outcome |-> "value", data |-> entry.data, remove |-> FALSE]

\* moon.ts:64-86: getCachedData; its catch turns every throw into null
getCachedData(st, key, coordString, t, getItemFails) ==
    LET r == getCachedDataTry(st, key, coordString, t, getItemFails)
    IN  IF r.outcome = "throw"
        THEN [outcome |-> "null", data |-> NoCacheValue, remove |-> FALSE]
        ELSE r

\* moon.ts:76: localStorage.removeItem
RemoveItem(st, key, coordString) ==
    [st EXCEPT ![CacheKeyOf(key, coordString)] = Absent]

\* moon.ts:88-106: setCachedData at instant t; setItemFails says that
\* localStorage.setItem throws, which the catch swallows
setCachedData(st, key, coordString, data, t, setItemFails) ==
    IF setItemFails THEN st
    ELSE [st EXCEPT ![CacheKeyOf(key, coordString)] =
              JSONStringify(CacheEntry(data, t, coordString))]

\* the storage after getCachedData
AfterGet(st, key, coordString, t, getItemFails) ==
    IF getCachedData(st, key, coordString, t, getItemFails).remove
    THEN RemoveItem(st, key, coordString) ELSE st

\* Inputs of the client cache.
MaxTicks == 3

CacheNames   == {"tide"}
CoordStrings == {"10,20", "10,21"}
CacheKeys    == {CacheKeyOf(k, c) : k \in CacheNames, c \in CoordStrings}

CachePayloads ==
    {NoRawData,
     [today |-> <<RawTide(6, "1.00", "HIGH"), RawTide(12, "0.20", "LOW")>>,
      tomorrow |-> <<>>]}

CacheValues == {TideResultOf(rd, 9) : rd \in CachePayloads}

NoCacheOp == [op |-> "none", key |-> "", coordinates |-> "", at |-> 0,
              storageError |-> FALSE, outcome |-> "none", data |-> NoCacheValue]

NeverSet == [written |-> FALSE, data |-> NoCacheValue, at |-> 0]

(***************************************************************************)
(* Score breakdown                                                         *)
(***************************************************************************)

\* a factor of the breakdown, its impact ('+10', '-5', '0') as a number
Factor(category, impact) == [category |-> category, impact |-> impact]

NoMoonPhase == [present |-> FALSE, phase |-> "none"]

\* ScoreInfo.tsx:8 and 287: the moonPhase prop, a MoonPhase
MoonPhaseProp(m) == [present |-> TRUE, phase |-> m.phase]

\* ScoreInfo.tsx:15-60: the five weather factors
WeatherFactors(w) ==
    << Factor("Wind Speed",
              IF w.windSpeed < 5 THEN 10
              ELSE IF w.windSpeed > 20 THEN -20
              ELSE IF w.windSpeed > 15 THEN -10 ELSE 0),
       Factor("Temperature",
              IF w.temperature >= 60 /\ w.temperature <= 75 THEN 10
              ELSE IF w.temperature < 45 \/ w.temperature > 85 THEN -15
              ELSE -5),
       Factor("Cloud Cover",
              IF w.cloudCover >= 40 /\ w.cloudCover <= 70 THEN 10
              ELSE IF w.cloudCover > 90 THEN -5 ELSE 0),
       Factor("Precipitation",
              IF w.precipitation > 50 THEN -20
              ELSE IF w.precipitation > 30 THEN -10 ELSE 0),
       Factor("Barometric Pressure",
              IF w.pressure >= 1010 /\ w.pressure <= 1020 THEN 5 ELSE 0) >>

\* ScoreInfo.tsx:62-70
MoonFactors(m) ==
    IF m.present
    THEN << Factor("Moon Phase",
                   IF m.phase = "Full Moon" \/ m.phase = "New Moon" THEN 10 ELSE 0) >>
    ELSE <<>>

\* ScoreInfo.tsx:72-84
TideFactors(t) ==
    IF t.present
    THEN << Factor("Tide",
                   IF /\ t.state = "incoming" \/ t.state = "outgoing"
                      /\ ~t.nan /\ t.height > 50 /\ t.height < 200
                   THEN 15
                   ELSE IF t.state = "incoming" \/ t.state = "outgoing" THEN 10
                   ELSE 0) >>
    ELSE <<>>

\* ScoreInfo.tsx:12-84: the scoreFactors of ScoreInfo
ScoreInfo(w, t, m) == WeatherFactors(w) \o MoonFactors(m) \o TideFactors(t)

\* Inputs of the score breakdown.
InfoSnapshots ==
    [windSpeed : {3, 15, 25}, temperature : {50, 68, 95}, cloudCover : {20, 55, 95},
     precipitation : {10, 60}, pressure : {990, 1015}]

InfoMoonPhases ==
    {NoMoonPhase}
      \cup {MoonPhaseProp(getMoonPhase(MoonDate(FALSE, 0, d), 0)) :
              d \in {0, 922831, 1476500}}

(***************************************************************************)
(* Proxy server: the response cache (server/index.js)                      *)
(***************************************************************************)

\* CACHE_DURATION of the server, 5 * 60 * 1000 ms, in minutes
SERVER_CACHE_DURATION == 5

MaxRequests == 3
MaxServerNow == 6

\* req.originalUrl of the requests: one without coordinates, two with
MarineUrls == {"/api/marine", "/api/marine?lat=10&lon=20", "/api/marine?lat=10&lon=21"}

\* !lat || !lon of the route handler
MissingCoordinates(url) == url = "/api/marine"

\* the JSON bodies the route sends
ErrorBody(msg) == [error |-> msg]
MarineBody == [hours |-> "marine"]
IsErrorBody(body) == "error" \in DOMAIN body

ServerResponse(url, status, body, cached) ==
    [url |-> url, status |-> status, body |-> body, cached |-> cached]
NoResponse == ServerResponse("", 0, [none |-> TRUE], FALSE)

\* apiCache.get(key) is an entry younger than duration
CacheHit(cache, key, clock, duration) ==
    /\ key \in DOMAIN cache
    /\ clock - cache[key].timestamp < duration

\* apiCache.set(key, {data, timestamp: Date.now()})
ApiCacheSet(cache, key, data, clock) ==
    [k \in DOMAIN cache \cup {key} |->
        IF k = key THEN [data |-> data, timestamp |-> clock] ELSE cache[k]]

\* the replaced res.json of a request that missed the cache: it stores whatever
\* body the handler sends, then sends it with the status the handler set
ResJson(cache, key, status, data, clock) ==
    ApiCacheSet(cache, key, data, clock)

(***************************************************************************)
(* Proxy server: fetchWithRetry (server/index.js)                          *)
(***************************************************************************)

MaxRetries == 6

RECURSIVE Pow2(_)
Pow2(n) == IF n = 0 THEN 1 ELSE 2 * Pow2(n - 1)

\* the delay before the next attempt, in ms, without the cap
Backoff_Uncapped(i) == 1000 * Pow2(i)

\* Math.min(1000 * Math.pow(2, i), 10000)
Backoff(i) == Min(1000 * Pow2(i), 10000)

\* what one attempt can throw: the abort of the 30 s timer, a network error,
\* a non-ok status, a body that is not JSON
AttemptErrors == {"AbortError", "HTTP error! status: 500"}

\* the error thrown by attempt i
AttemptError(i, message) == [attempt |-> i, message |-> message]

\* the parsed bodies upstream can answer with
UpstreamBodies == {"body-a", "body-b"}

\* the outcome of one attempt
AttemptOk(body) == [ok |-> TRUE, body |-> body, error |-> AttemptError(-1, "")]
AttemptFailed(err) == [ok |-> FALSE, body |-> "", error |-> err]

\* lastError before any attempt failed
Undefined == AttemptError(-1, "undefined")

\* the locals of a call: pc is "call" before it runs, "fetch" while an attempt is
\* awaited, "backoff" while the timer is awaited, then "returned" or "rejected"
RetryCall(retries, i, pc, lastError, requests, attempts, waits, body, thrown) ==
    [retries |-> retries, i |-> i, pc |-> pc, lastError |-> lastError,
     requests |-> requests, attempts |-> attempts, waits |-> waits, body |-> body,
     thrown |-> thrown]

NoRetryCall == RetryCall(0, 0, "none", Undefined, 0, <<>>, <<>>, "", Undefined)

\* the head of the for loop: the next attempt is issued if i < retries, otherwise
\* the loop is left and lastError is thrown
LoopHead(c, i) ==
    IF i < c.retries
    THEN [c EXCEPT !.i = i, !.pc = "fetch", !.requests = @ + 1]
    ELSE [c EXCEPT !.i = i, !.pc = "rejected", !.thrown = c.lastError]

(***************************************************************************)
(* Proxy server: fetchWithRetry with the circuit breaker (part_000)        *)
(***************************************************************************)

\* circuitBreaker.threshold
threshold == 5

\* circuitBreaker.resetTimeout, 30000 ms, in units of 15 s
resetTimeout == 2

\* the default of the retries parameter, which the route relies on
DefaultRetries == 3

Callers == {1, 2}
MaxStarted == 3
MaxBreakerNow == 4

CircuitBreaker(failures, lastFailure, isOpen) ==
    [failures |-> failures, lastFailure |-> lastFailure, isOpen |-> isOpen]

\* circuitBreaker.failures >= circuitBreaker.threshold
Tripped_Early(failures) == failures >= threshold - 1

Tripped(failures) == failures >= threshold

\* now - circuitBreaker.lastFailure > circuitBreaker.resetTimeout
ResetDue(cb, clock) == clock - cb.lastFailure > resetTimeout

\* a call of a caller: pc is "idle" before it runs, "fetch" while fetch is
\* awaited, "json" while response.json() is awaited, "backoff" while the timer
\* is awaited, then "returned" or "rejected"; openAtStart and ageAtStart are what
\* the call found when it started: whether the circuit was open, and how long
\* after lastFailure it was
BreakerCall(pc, i, requests, thrown, openAtStart, ageAtStart) ==
    [pc |-> pc, i |-> i, requests |-> requests, thrown |-> thrown,
     openAtStart |-> openAtStart, ageAtStart |-> ageAtStart]

NoBreakerCall == BreakerCall("idle", 0, 0, "", FALSE, 0)

\* the check of the breaker at the start of a call
BreakerAfterCheck(cb, clock) ==
    IF cb.isOpen /\ ResetDue(cb, clock)
    THEN [cb EXCEPT !.isOpen = FALSE, !.failures = 0]
    ELSE cb

\* the catch block's update of the breaker
BreakerAfterFailure(cb, clock) ==
    LET failures == cb.failures + 1
    IN  CircuitBreaker(failures, clock, cb.isOpen \/ Tripped(failures))

\* the reset on success
BreakerAfterSuccess(cb) == [cb EXCEPT !.failures = 0, !.isOpen = FALSE]

\* Variables of the components a behaviour does not exercise.
IdleScore    == weather = NoWeather /\ tideInfo = NoTide /\ scored = NotScored
IdleTimeline == /\ weatherData = NoWeatherData
                /\ tideData = NoTide
                /\ timeline = NoTimeline
                /\ forecast = NoTimeline
IdleTide     == rawData = NoRawData /\ now = 0 /\ tideResult = NoTideResult /\ calc = NoCalc
IdleFetch    == weatherPromise = NoPromise /\ tidePromise = NoPromise
IdleMoon     == date = NoDate /\ moonCalls = <<>>
IdleInfo     == moonPhase = NoMoonPhase /\ scoreFactors = <<>>
IdleRetry    == retryCall = NoRetryCall
IdleBreaker  == /\ circuitBreaker = CircuitBreaker(0, 0, FALSE)
                /\ breakerCalls = [c \in Callers |-> NoBreakerCall]
                /\ breakerNow = 0
                /\ started = 0
IdleServer   == /\ apiCache = << >>
                /\ inflight = [u \in MarineUrls |-> 0]
                /\ response = NoResponse
                /\ serverNow = 0
                /\ apiKey = FALSE
                /\ served = 0
IdleCache    == /\ storage = [k \in CacheKeys |-> Absent]
                /\ dateNow = 0
                /\ cacheOp = NoCacheOp
                /\ lastSet = [k \in CacheKeys |-> NeverSet]

InitScore ==
    /\ phase = "score"
    /\ IdleBreaker
    /\ IdleRetry
    /\ IdleServer
    /\ IdleInfo
    /\ IdleCache
    /\ weather \in WeatherSnapshots
    /\ tideInfo \in TideReadings \cup {NoTide}
    /\ scored = NotScored
    /\ IdleTimeline
    /\ IdleTide
    /\ IdleFetch
    /\ IdleMoon

\* One scored point: calculateFishingScore, then determineCondition on its result.
ScorePoint ==
    /\ phase = "score"
    /\ phase' = "scored"
    /\ scored' = ScorePointOf(0, weather, tideInfo)
    /\ UNCHANGED <<weather, tideInfo, weatherData, tideData, timeline, forecast,
                   rawData, now, tideResult, calc, weatherPromise, tidePromise,
                   date, moonCalls,
            storage, dateNow, cacheOp, lastSet,
            moonPhase, scoreFactors,
            apiCache, inflight, response, serverNow, apiKey, served,
            retryCall,
            circuitBreaker, breakerCalls, breakerNow, started>>

NextScore == ScorePoint

SpecScore == InitScore /\ [][NextScore]_vars

InitTimeline ==
    /\ phase = "timeline"
    /\ IdleBreaker
    /\ IdleRetry
    /\ IdleServer
    /\ IdleInfo
    /\ IdleCache
    /\ weatherData \in WeatherDatas
    /\ tideData \in {NoTide, TideReading(120, "incoming")}
    /\ timeline = NoTimeline
    /\ forecast = NoTimeline
    /\ IdleScore
    /\ IdleTide
    /\ IdleFetch
    /\ IdleMoon

\* fetchForecastData after both fetches: generateForecastTimeline and the
\* caller's handling of its result or error, one synchronous step.
GenerateTimeline ==
    /\ phase = "timeline"
    /\ phase' = "generated"
    /\ timeline' = generateForecastTimeline(weatherData, tideData)
    /\ forecast' = fetchForecastDataJoin(weatherData, tideData)
    /\ UNCHANGED <<weather, tideInfo, scored, weatherData, tideData,
                   rawData, now, tideResult, calc, weatherPromise, tidePromise,
                   date, moonCalls,
            storage, dateNow, cacheOp, lastSet,
            moonPhase, scoreFactors,
            apiCache, inflight, response, serverNow, apiKey, served,
            retryCall,
            circuitBreaker, breakerCalls, breakerNow, started>>

NextTimeline == GenerateTimeline

SpecTimeline == InitTimeline /\ [][NextTimeline]_vars

InitTide ==
    /\ phase = "tide"
    /\ IdleBreaker
    /\ IdleRetry
    /\ IdleServer
    /\ IdleInfo
    /\ IdleCache
    /\ \/ rawData \in Payloads(FilterSamples) /\ now \in {3, 9, 15}
       \/ rawData \in Payloads(CycleSamples) /\ now \in {3, 6, 9, 12, 15, 18, 24, 30, 33}
       \/ rawData \in CurvePayloads /\ now \in {3, 6, 8, 9, 10, 12, 15, 21, 30, 33}
    /\ tideResult = NoTideResult
    /\ calc = NoCalc
    /\ IdleScore
    /\ IdleTimeline
    /\ IdleFetch
    /\ IdleMoon

\* getTideData from the provider's answer on (tides.ts:46-98)
GetTideData ==
    /\ phase = "tide"
    /\ phase' = "tideDone"
    /\ tideResult' = getTideData(rawData, now)
    /\ calc' = getTideDataCalc(rawData, now)
    /\ UNCHANGED <<weather, tideInfo, scored, weatherData, tideData, timeline,
                   forecast, rawData, now, weatherPromise, tidePromise,
                   date, moonCalls,
            storage, dateNow, cacheOp, lastSet,
            moonPhase, scoreFactors,
            apiCache, inflight, response, serverNow, apiKey, served,
            retryCall,
            circuitBreaker, breakerCalls, breakerNow, started>>

NextTide == GetTideData

SpecTide == InitTide /\ [][NextTide]_vars

InitFetch ==
    /\ phase = "fetch"
    /\ IdleBreaker
    /\ IdleRetry
    /\ IdleServer
    /\ IdleInfo
    /\ IdleCache
    /\ weatherPromise = Pending
    /\ tidePromise = Pending
    /\ IdleScore
    /\ IdleTimeline
    /\ IdleTide
    /\ IdleMoon

\* ForecastTimeline.tsx:494-525: what fetchForecastData does when one of its
\* two promises settles as `settled`, the promises behind their .catch then
\* being wp and tp, with the values wd and td: nothing while Promise.all is pending or once its own
\* outcome is out, its catch on the first rejection, the join on fulfilment
Continue(settled, wp, tp, wd, td) ==
    IF forecast.status # "none" \/ PromiseAll(wp, tp) = "pending"
    THEN UNCHANGED <<timeline, forecast>>
    ELSE IF PromiseAll(wp, tp) = "rejected"
    THEN /\ forecast' = Rejection(settled.message)
         /\ UNCHANGED timeline
    ELSE /\ timeline' = generateForecastTimeline(wd, td)
         /\ forecast' = fetchForecastDataJoin(wd, td)

\* the weather provider answers: fetchWeatherData settles (weather.ts:4-58)
WeatherSettles ==
    /\ phase = "fetch"
    /\ weatherPromise.state = "pending"
    /\ \E ans \in WeatherAnswers :
          LET p == fetchWeatherData(ans)
              w == WeatherCatch(p)
              t == TideCatch([promise |-> tidePromise, value |-> tideResult])
          IN  /\ weatherPromise' = p.promise
              /\ weatherData' = p.value
              /\ Continue(w.promise, w.promise, t.promise, w.value, t.value.data)
    /\ UNCHANGED <<phase, weather, tideInfo, scored, tideData, rawData, now,
                   tideResult, calc, tidePromise, date, moonCalls,
            storage, dateNow, cacheOp, lastSet,
            moonPhase, scoreFactors,
            apiCache, inflight, response, serverNow, apiKey, served,
            retryCall,
            circuitBreaker, breakerCalls, breakerNow, started>>

\* the marine provider answers: getTideData settles (tides.ts:7-105)
TideSettles ==
    /\ phase = "fetch"
    /\ tidePromise.state = "pending"
    /\ \E ans \in TideAnswers, ct \in {9} :
          LET p == getTideDataPromise(ans, ct)
              t == TideCatch(p)
              w == WeatherCatch([promise |-> weatherPromise, value |-> weatherData])
          IN  /\ tidePromise' = p.promise
              /\ tideResult' = p.value
              /\ tideData' = t.value.data
              /\ rawData' = ans.body
              /\ now' = ct
              /\ calc' = IF ans.kind = "body" THEN getTideDataCalc(ans.body, ct) ELSE NoCalc
              /\ Continue(t.promise, w.promise, t.promise, w.value, t.value.data)
    /\ UNCHANGED <<phase, weather, tideInfo, scored, weatherData, weatherPromise,
                   date, moonCalls,
            storage, dateNow, cacheOp, lastSet,
            moonPhase, scoreFactors,
            apiCache, inflight, response, serverNow, apiKey, served,
            retryCall,
            circuitBreaker, breakerCalls, breakerNow, started>>

NextFetch == WeatherSettles \/ TideSettles

SpecFetch == InitFetch /\ [][NextFetch]_vars

InitMoon ==
    /\ phase = "moon"
    /\ IdleBreaker
    /\ IdleRetry
    /\ IdleServer
    /\ IdleInfo
    /\ IdleCache
    /\ date \in MoonDates
    /\ moonCalls = <<>>
    /\ IdleScore
    /\ IdleTimeline
    /\ IdleTide
    /\ IdleFetch

\* one call of getMoonPhase(date), at a wall clock not before the last call's
GetMoonPhase ==
    /\ phase = "moon"
    /\ Len(moonCalls) < MaxCalls
    /\ \E clock \in Clocks :
          /\ moonCalls # <<>> => clock >= moonCalls[Len(moonCalls)].clock
          /\ moonCalls' = Append(moonCalls,
                [clock |-> clock, moonAge |-> getMoonAge(date),
                 moon |-> getMoonPhase(date, clock)])
    /\ UNCHANGED <<phase, weather, tideInfo, scored, weatherData, tideData, timeline,
                   forecast, rawData, now, tideResult, calc, weatherPromise,
                   tidePromise, date,
            storage, dateNow, cacheOp, lastSet,
            moonPhase, scoreFactors,
            apiCache, inflight, response, serverNow, apiKey, served,
            retryCall,
            circuitBreaker, breakerCalls, breakerNow, started>>

NextMoon == GetMoonPhase

SpecMoon == InitMoon /\ [][NextMoon]_vars

\* localStorage outlives the page: it starts empty or with a text that is
\* not an entry under one key
InitCache ==
    /\ phase = "cache"
    /\ IdleBreaker
    /\ IdleRetry
    /\ IdleServer
    /\ IdleInfo
    /\ storage \in [CacheKeys -> {Absent, Corrupt}]
    /\ dateNow = 9
    /\ cacheOp = NoCacheOp
    /\ lastSet = [k \in CacheKeys |-> NeverSet]
    /\ IdleScore
    /\ IdleTimeline
    /\ IdleTide
    /\ IdleFetch
    /\ IdleMoon

\* time passes
Tick ==
    /\ phase = "cache"
    /\ dateNow < 9 + MaxTicks
    /\ dateNow' = dateNow + 1
    /\ UNCHANGED <<phase, weather, tideInfo, scored, weatherData, tideData, timeline,
                   forecast, rawData, now, tideResult, calc, weatherPromise,
                   tidePromise, date, moonCalls, storage, cacheOp, lastSet,
            moonPhase, scoreFactors,
            apiCache, inflight, response, serverNow, apiKey, served,
            retryCall,
            circuitBreaker, breakerCalls, breakerNow, started>>

\* a call of setCachedData (moon.ts:88-106)
SetCachedData ==
    /\ phase = "cache"
    /\ \E key \in CacheNames, c \in CoordStrings, data \in CacheValues,
          setItemFails \in BOOLEAN :
          /\ storage' = setCachedData(storage, key, c, data, dateNow, setItemFails)
          /\ lastSet' = IF setItemFails THEN lastSet
                        ELSE [lastSet EXCEPT ![CacheKeyOf(key, c)] =
                                 [written |-> TRUE, data |-> data, at |-> dateNow]]
          /\ cacheOp' = [op |-> "set", key |-> key, coordinates |-> c, at |-> dateNow,
                         storageError |-> setItemFails, outcome |-> "undefined",
                         data |-> NoCacheValue]
    /\ UNCHANGED <<phase, weather, tideInfo, scored, weatherData, tideData, timeline,
                   forecast, rawData, now, tideResult, calc, weatherPromise,
                   tidePromise, date, moonCalls, dateNow,
            moonPhase, scoreFactors,
            apiCache, inflight, response, serverNow, apiKey, served,
            retryCall,
            circuitBreaker, breakerCalls, breakerNow, started>>

\* a call of getCachedData (moon.ts:64-86)
GetCachedData ==
    /\ phase = "cache"
    /\ \E key \in CacheNames, c \in CoordStrings, getItemFails \in BOOLEAN :
          LET r == getCachedData(storage, key, c, dateNow, getItemFails)
          IN  /\ storage' = AfterGet(storage, key, c, dateNow, getItemFails)
              /\ cacheOp' = [op |-> "get", key |-> key, coordinates |-> c, at |-> dateNow,
                             storageError |-> getItemFails, outcome |-> r.outcome,
                             data |-> r.data]
    /\ UNCHANGED <<phase, weather, tideInfo, scored, weatherData, tideData, timeline,
                   forecast, rawData, now, tideResult, calc, weatherPromise,
                   tidePromise, date, moonCalls, dateNow, lastSet,
            moonPhase, scoreFactors,
            apiCache, inflight, response, serverNow, apiKey, served,
            retryCall,
            circuitBreaker, breakerCalls, breakerNow, started>>

\* a call of getTideData with the key configured and the provider answering
\* with a body (tides.ts:12-98): the cached result if there is one, else a
\* result computed against the dateNow and cached
GetTideDataCached ==
    /\ phase = "cache"
    /\ \E c \in CoordStrings, rd \in CachePayloads :
          LET cachedData == getCachedData(storage, "tide", c, dateNow, FALSE)
              st         == AfterGet(storage, "tide", c, dateNow, FALSE)
              result     == IF cachedData.outcome = "value" THEN cachedData.data
                            ELSE TideResultOf(rd, dateNow)
          IN  /\ storage' = IF cachedData.outcome = "value" THEN st
                            ELSE setCachedData(st, "tide", c, result, dateNow, FALSE)
              /\ lastSet' = IF cachedData.outcome = "value" THEN lastSet
                            ELSE [lastSet EXCEPT ![CacheKeyOf("tide", c)] =
                                     [written |-> TRUE, data |-> result, at |-> dateNow]]
              /\ cacheOp' = [op |-> "getTideData", key |-> "tide", coordinates |-> c,
                             at |-> dateNow, storageError |-> FALSE,
                             outcome |-> cachedData.outcome, data |-> result]
              /\ tideResult' = [status |-> "returned", data |-> result.data]
              /\ rawData' = result.raw
              /\ now' = dateNow
              /\ calc' = IF cachedData.outcome = "value" THEN NoCalc
                         ELSE getTideDataCalc(rd, dateNow)
    /\ UNCHANGED <<phase, weather, tideInfo, scored, weatherData, tideData, timeline,
                   forecast, weatherPromise, tidePromise, date, moonCalls, dateNow,
            moonPhase, scoreFactors,
            apiCache, inflight, response, serverNow, apiKey, served,
            retryCall,
            circuitBreaker, breakerCalls, breakerNow, started>>

NextCache == Tick \/ SetCachedData \/ GetCachedData \/ GetTideDataCached

SpecCache == InitCache /\ [][NextCache]_vars

InitScoreInfo ==
    /\ phase = "info"
    /\ IdleBreaker
    /\ IdleRetry
    /\ IdleServer
    /\ weather \in InfoSnapshots
    /\ tideInfo \in TideReadings \cup {NoTide}
    /\ moonPhase \in InfoMoonPhases
    /\ scored = NotScored
    /\ scoreFactors = <<>>
    /\ IdleTimeline
    /\ IdleTide
    /\ IdleFetch
    /\ IdleMoon
    /\ IdleCache

\* a point is scored (weather.ts:175-185) and ScoreInfo is opened on it
\* (ScoreInfo.tsx:284-289)
ShowScoreInfo ==
    /\ phase = "info"
    /\ phase' = "shown"
    /\ scored' = ScorePointOf(0, weather, tideInfo)
    /\ scoreFactors' = ScoreInfo(weather, tideInfo, moonPhase)
    /\ UNCHANGED <<weather, tideInfo, weatherData, tideData, timeline, forecast,
                   rawData, now, tideResult, calc, weatherPromise, tidePromise,
                   date, moonCalls, storage, dateNow, cacheOp, lastSet, moonPhase,
            apiCache, inflight, response, serverNow, apiKey, served,
            retryCall,
            circuitBreaker, breakerCalls, breakerNow, started>>

NextScoreInfo == ShowScoreInfo

SpecScoreInfo == InitScoreInfo /\ [][NextScoreInfo]_vars

\* The score engine and the timeline builder together.
InitScoreTimeline == InitScore \/ InitTimeline

NextScoreTimeline == ScorePoint \/ GenerateTimeline

SpecScoreTimeline == InitScoreTimeline /\ [][NextScoreTimeline]_vars

\* The proxy server: requests to the marine route through cacheMiddleware.
InitServer ==
    /\ phase = "server"
    /\ IdleBreaker
    /\ IdleRetry
    /\ apiCache = << >>
    /\ inflight = [u \in MarineUrls |-> 0]
    /\ response = NoResponse
    /\ serverNow = 0
    /\ apiKey \in BOOLEAN
    /\ served = 0
    /\ IdleScore
    /\ IdleTimeline
    /\ IdleTide
    /\ IdleFetch
    /\ IdleMoon
    /\ IdleCache
    /\ IdleInfo

ServerIdleRest ==
    UNCHANGED <<phase, weather, tideInfo, scored, weatherData, tideData, timeline,
                forecast, rawData, now, tideResult, calc, weatherPromise, tidePromise,
                date, moonCalls, storage, dateNow, cacheOp, lastSet,
                moonPhase, scoreFactors,
            retryCall,
            circuitBreaker, breakerCalls, breakerNow, started>>

\* a minute passes
ServerTick ==
    /\ phase = "server"
    /\ serverNow < MaxServerNow
    /\ serverNow' = serverNow + 1
    /\ UNCHANGED <<apiCache, inflight, response, apiKey, served>>
    /\ ServerIdleRest

\* GET url: cacheMiddleware, then the route handler up to its first await
Request ==
    /\ phase = "server"
    /\ served < MaxRequests
    /\ served' = served + 1
    /\ \E url \in MarineUrls :
          IF CacheHit(apiCache, url, serverNow, SERVER_CACHE_DURATION)
          THEN /\ response' = ServerResponse(url, 200, apiCache[url].data, TRUE)
               /\ UNCHANGED <<apiCache, inflight>>
          ELSE IF MissingCoordinates(url)
          THEN /\ apiCache' = ResJson(apiCache, url, 400,
                                 ErrorBody("Missing latitude or longitude"), serverNow)
               /\ response' = ServerResponse(url, 400,
                                 ErrorBody("Missing latitude or longitude"), FALSE)
               /\ UNCHANGED inflight
          ELSE IF ~apiKey
          THEN /\ apiCache' = ResJson(apiCache, url, 500,
                                 ErrorBody("Marine API key not configured"), serverNow)
               /\ response' = ServerResponse(url, 500,
                                 ErrorBody("Marine API key not configured"), FALSE)
               /\ UNCHANGED inflight
          ELSE /\ inflight' = [inflight EXCEPT ![url] = @ + 1]
               /\ UNCHANGED <<apiCache, response>>
    /\ UNCHANGED <<serverNow, apiKey>>
    /\ ServerIdleRest

\* fetchWithRetry resolves for a waiting handler: res.json(data)
UpstreamResolves ==
    /\ phase = "server"
    /\ \E url \in MarineUrls :
          /\ inflight[url] > 0
          /\ inflight' = [inflight EXCEPT ![url] = @ - 1]
          /\ apiCache' = ResJson(apiCache, url, 200, MarineBody, serverNow)
          /\ response' = ServerResponse(url, 200, MarineBody, FALSE)
    /\ UNCHANGED <<serverNow, apiKey, served>>
    /\ ServerIdleRest

\* fetchWithRetry rejects for a waiting handler: res.status(500).json({error})
UpstreamRejects ==
    /\ phase = "server"
    /\ \E url \in MarineUrls :
          /\ inflight[url] > 0
          /\ inflight' = [inflight EXCEPT ![url] = @ - 1]
          /\ apiCache' = ResJson(apiCache, url, 500,
                            ErrorBody("Failed to fetch marine data"), serverNow)
          /\ response' = ServerResponse(url, 500,
                            ErrorBody("Failed to fetch marine data"), FALSE)
    /\ UNCHANGED <<serverNow, apiKey, served>>
    /\ ServerIdleRest

NextServer == ServerTick \/ Request \/ UpstreamResolves \/ UpstreamRejects

SpecServer == InitServer /\ [][NextServer]_vars

\* One call of fetchWithRetry(url, options, retries).
InitRetry ==
    /\ phase = "retry"
    /\ IdleBreaker
    /\ \E retries \in 0..MaxRetries :
          retryCall = RetryCall(retries, 0, "call", Undefined, 0, <<>>, <<>>, "", Undefined)
    /\ IdleScore
    /\ IdleTimeline
    /\ IdleTide
    /\ IdleFetch
    /\ IdleMoon
    /\ IdleCache
    /\ IdleInfo
    /\ IdleServer

RetryIdleRest ==
    UNCHANGED <<phase, weather, tideInfo, scored, weatherData, tideData, timeline,
                forecast, rawData, now, tideResult, calc, weatherPromise, tidePromise,
                date, moonCalls, storage, dateNow, cacheOp, lastSet,
                moonPhase, scoreFactors,
                apiCache, inflight, response, serverNow, apiKey, served,
            circuitBreaker, breakerCalls, breakerNow, started>>

\* the call runs up to its first await
FetchWithRetry ==
    /\ phase = "retry"
    /\ retryCall.pc = "call"
    /\ retryCall' = LoopHead(retryCall, 0)
    /\ RetryIdleRest

\* the awaited attempt gives a parsed body: return it
AttemptSucceeds ==
    /\ phase = "retry"
    /\ retryCall.pc = "fetch"
    /\ \E body \in UpstreamBodies :
          retryCall' = [retryCall EXCEPT
                           !.attempts = Append(@, AttemptOk(body)),
                           !.pc = "returned",
                           !.body = body]
    /\ RetryIdleRest

\* the awaited attempt throws: rethrow on the last attempt, otherwise start the
\* backoff timer
AttemptFails ==
    /\ phase = "retry"
    /\ retryCall.pc = "fetch"
    /\ \E message \in AttemptErrors :
          LET error == AttemptError(retryCall.i, message)
              failed == [retryCall EXCEPT
                            !.attempts = Append(@, AttemptFailed(error)),
                            !.lastError = error]
          IN  retryCall' =
                 IF retryCall.i = retryCall.retries - 1
                 THEN [failed EXCEPT !.pc = "rejected", !.thrown = error]
                 ELSE [failed EXCEPT !.pc = "backoff",
                                     !.waits = Append(@, Backoff(retryCall.i))]
    /\ RetryIdleRest

\* the backoff timer fires: i++ and the loop goes on
BackoffEnds ==
    /\ phase = "retry"
    /\ retryCall.pc = "backoff"
    /\ retryCall' = LoopHead(retryCall, retryCall.i + 1)
    /\ RetryIdleRest

NextRetry == FetchWithRetry \/ AttemptSucceeds \/ AttemptFails \/ BackoffEnds

SpecRetry == InitRetry /\ [][NextRetry]_vars

\* every awaited attempt settles, by a response or by an error such as the
\* abort of the 30 s timer, and every backoff timer fires
FairRetry == SpecRetry /\ WF_vars(NextRetry)

\* Concurrent calls of fetchWithRetry sharing the circuit breaker.
InitBreaker ==
    /\ phase = "breaker"
    /\ circuitBreaker = CircuitBreaker(0, 0, FALSE)
    /\ breakerCalls = [c \in Callers |-> NoBreakerCall]
    /\ breakerNow = 0
    /\ started = 0
    /\ IdleScore
    /\ IdleTimeline
    /\ IdleTide
    /\ IdleFetch
    /\ IdleMoon
    /\ IdleCache
    /\ IdleInfo
    /\ IdleServer
    /\ IdleRetry

BreakerIdleRest ==
    UNCHANGED <<phase, weather, tideInfo, scored, weatherData, tideData, timeline,
                forecast, rawData, now, tideResult, calc, weatherPromise, tidePromise,
                date, moonCalls, storage, dateNow, cacheOp, lastSet,
                moonPhase, scoreFactors,
                apiCache, inflight, response, serverNow, apiKey, served,
                retryCall>>

\* 15 s pass
BreakerTick ==
    /\ phase = "breaker"
    /\ breakerNow < MaxBreakerNow
    /\ breakerNow' = breakerNow + 1
    /\ UNCHANGED <<circuitBreaker, breakerCalls, started>>
    /\ BreakerIdleRest

\* a caller whose last call settled calls fetchWithRetry: the breaker is
\* checked, then the first attempt is issued
StartCall ==
    /\ phase = "breaker"
    /\ started < MaxStarted
    /\ started' = started + 1
    /\ \E c \in Callers :
          /\ breakerCalls[c].pc \in {"idle", "returned", "rejected"}
          /\ LET open == circuitBreaker.isOpen
                 age == breakerNow - circuitBreaker.lastFailure
             IN  IF open /\ ~ResetDue(circuitBreaker, breakerNow)
                 THEN /\ breakerCalls' = [breakerCalls EXCEPT ![c] =
                            BreakerCall("rejected", 0, 0, "Circuit breaker is open",
                                        open, age)]
                      /\ UNCHANGED circuitBreaker
                 ELSE /\ circuitBreaker' = BreakerAfterCheck(circuitBreaker, breakerNow)
                      /\ breakerCalls' = [breakerCalls EXCEPT ![c] =
                            BreakerCall("fetch", 0, 1, "", open, age)]
    /\ UNCHANGED breakerNow
    /\ BreakerIdleRest

\* fetch resolves with an ok response that was not aborted
ResponseArrives ==
    /\ phase = "breaker"
    /\ \E c \in Callers :
          /\ breakerCalls[c].pc = "fetch"
          /\ breakerCalls' = [breakerCalls EXCEPT ![c].pc = "json"]
    /\ UNCHANGED <<circuitBreaker, breakerNow, started>>
    /\ BreakerIdleRest

\* response.json() resolves: the breaker is reset and the call returns
BodyParsed ==
    /\ phase = "breaker"
    /\ \E c \in Callers :
          /\ breakerCalls[c].pc = "json"
          /\ circuitBreaker' = BreakerAfterSuccess(circuitBreaker)
          /\ breakerCalls' = [breakerCalls EXCEPT ![c].pc = "returned"]
    /\ UNCHANGED <<breakerNow, started>>
    /\ BreakerIdleRest

\* an awaited fetch or response.json() throws, or the response is not ok: the
\* catch block counts the failure, then throws or starts the backoff timer
BreakerAttemptFails ==
    /\ phase = "breaker"
    /\ \E c \in Callers :
          /\ breakerCalls[c].pc \in {"fetch", "json"}
          /\ circuitBreaker' = BreakerAfterFailure(circuitBreaker, breakerNow)
          /\ breakerCalls' = [breakerCalls EXCEPT ![c] =
                IF Tripped(circuitBreaker.failures + 1)
                THEN [@ EXCEPT !.pc = "rejected", !.thrown = "Circuit breaker triggered"]
                ELSE IF @.i = DefaultRetries - 1
                THEN [@ EXCEPT !.pc = "rejected", !.thrown = "upstream error"]
                ELSE [@ EXCEPT !.pc = "backoff"]]
    /\ UNCHANGED <<breakerNow, started>>
    /\ BreakerIdleRest

\* the backoff timer fires: i++ and the next attempt is issued
BreakerBackoffEnds ==
    /\ phase = "breaker"
    /\ \E c \in Callers :
          /\ breakerCalls[c].pc = "backoff"
          /\ breakerCalls' = [breakerCalls EXCEPT ![c] =
                [@ EXCEPT !.pc = "fetch", !.i = @ + 1, !.requests = @ + 1]]
    /\ UNCHANGED <<circuitBreaker, breakerNow, started>>
    /\ BreakerIdleRest

NextBreaker ==
    \/ BreakerTick
    \/ StartCall
    \/ ResponseArrives
    \/ BodyParsed
    \/ BreakerAttemptFails
    \/ BreakerBackoffEnds

SpecBreaker == InitBreaker /\ [][NextBreaker]_vars

(***************************************************************************)
(* Claims                                                                  *)
(***************************************************************************)

\* C1: for every weather snapshot and every tide reading or none,
\* calculateFishingScore returns an integer score with 0 <= score <= 100.
C1_ScoreInRange ==
    phase = "scored" => scored.score \in 0..100

\* a point whose adjustments sum above 100 and is reported as 100
C1_Witness ==
    /\ phase = "scored"
    /\ tideInfo.present
    /\ weather.windSpeed = 3 /\ weather.temperature = 68 /\ weather.cloudCover = 55
    /\ weather.pressure = 1015
    /\ scored.score = 100

\* The adjustments as C2 states them.
C2_W(w) == IF w.windSpeed < 5 THEN 10 ELSE IF w.windSpeed > 20 THEN -20 ELSE 0
C2_T(w) == IF 60 <= w.temperature /\ w.temperature <= 75 THEN 10
           ELSE IF w.temperature < 45 \/ w.temperature > 85 THEN -15 ELSE -5
C2_C(w) == IF 40 <= w.cloudCover /\ w.cloudCover <= 70 THEN 10
           ELSE IF w.cloudCover > 90 THEN -5 ELSE 0
C2_P(w) == IF w.precipitation > 50 THEN -20
           ELSE IF 30 < w.precipitation /\ w.precipitation <= 50 THEN -10 ELSE 0
C2_B(w) == IF 1010 <= w.pressure /\ w.pressure <= 1020 THEN 5 ELSE 0
C2_Sum(w) == 70 + C2_W(w) + C2_T(w) + C2_C(w) + C2_P(w) + C2_B(w)
C2_Expected(w) == IF C2_Sum(w) < 0 THEN 0 ELSE IF C2_Sum(w) > 100 THEN 100 ELSE C2_Sum(w)
C2_Best  == [windSpeed |-> 3, temperature |-> 68, cloudCover |-> 55,
             precipitation |-> 10, pressure |-> 1015]
C2_Worst == [windSpeed |-> 25, temperature |-> 95, cloudCover |-> 95,
             precipitation |-> 60, pressure |-> 990]

\* C2: with no tide the score is clamp(70 + W + T + C + P + B, 0, 100) with the
\* adjustments above, for every wind speed the claim gives W for (below 5,
\* above 20, and from 5 up to but not including 15); the snapshot
\* (3, 68, 55, 10, 1015) scores 100 and (25, 95, 95, 60, 990) scores 10.
C2_NoTideFormula ==
    (phase = "scored" /\ ~tideInfo.present) =>
        /\ (weather.windSpeed < 15 \/ weather.windSpeed > 20)
              => scored.score = C2_Expected(weather)
        /\ weather = C2_Best => scored.score = 100
        /\ weather = C2_Worst => scored.score = 10

\* the worst snapshot of the claim, scored 10 without tide
C2_Witness ==
    phase = "scored" /\ ~tideInfo.present /\ weather = C2_Worst /\ scored.score = 10

C3_Relation(p) ==
    /\ p.score >= 70 => p.condition = "Good"
    /\ (40 <= p.score /\ p.score < 70) => p.condition = "Okay"
    /\ p.score < 40 => p.condition = "Poor"

\* C3: the condition of every scored point is decided by its score alone: Good
\* from 70, Okay from 40 to below 70, Poor below 40; so for every point of a
\* timeline.
C3_ConditionFromScore ==
    /\ phase = "scored" => C3_Relation(scored)
    /\ phase = "generated" =>
          \A i \in DOMAIN timeline.points : C3_Relation(timeline.points[i])

\* a timeline with a point scored exactly 70 (Good) and one scored exactly 40 (Okay)
C3_Witness ==
    /\ phase = "generated"
    /\ \E i, j \in DOMAIN timeline.points :
          /\ timeline.points[i].score = 70 /\ timeline.points[i].condition = "Good"
          /\ timeline.points[j].score = 40 /\ timeline.points[j].condition = "Okay"

C4_CurrentLacksWind ==
    /\ phase = "generated"
    /\ weatherData.hasCurrent /\ weatherData.hasList
    /\ ~weatherData.current.hasWind

C5_Complete(item) == item.present /\ item.hasMain /\ item.hasWind /\ item.hasClouds

\* the number of forecast steps that have main, wind and clouds
C5_K == Cardinality({i \in DOMAIN weatherData.list : C5_Complete(weatherData.list[i])})

\* the index in the forecast list of the n-th such step
C5_Nth(n) ==
    CHOOSE j \in DOMAIN weatherData.list :
        /\ C5_Complete(weatherData.list[j])
        /\ Cardinality({m \in 1..j : C5_Complete(weatherData.list[m])}) = n

\* C5: with `current` and `forecast.list` present, generateForecastTimeline
\* does not fail and returns 1 + k points, k the number of forecast steps with
\* all of main, wind and clouds; the other steps give no point and the
\* surviving steps follow the current point in their input order.
C5_SkipsIncompleteSteps ==
    (phase = "generated" /\ weatherData.hasCurrent /\ weatherData.hasList) =>
        /\ timeline.status = "ok"
        /\ Len(timeline.points) = 1 + C5_K
        /\ \A n \in 1..C5_K :
              /\ timeline.points[n + 1].timestamp =
                    TimestampOf(weatherData.list[C5_Nth(n)].dt)
              /\ timeline.points[n + 1].weather.windSpeed =
                    weatherData.list[C5_Nth(n)].speed

\* three steps, the middle one without clouds, give three points
C5_Witness ==
    /\ phase = "generated"
    /\ weatherData.hasCurrent /\ weatherData.hasList
    /\ Len(weatherData.list) = 3
    /\ C5_Complete(weatherData.list[1])
    /\ weatherData.list[2].hasMain /\ weatherData.list[2].hasWind
    /\ ~weatherData.list[2].hasClouds
    /\ C5_Complete(weatherData.list[3])
    /\ weatherData.list[1].dt # weatherData.list[3].dt
    /\ Len(timeline.points) = 3

\* C6: without `current` or without `forecast.list`, generateForecastTimeline
\* ends with one thrown error and its caller gets no point at all.
C6_NoPartialTimeline ==
    (phase = "generated" /\ (~weatherData.hasCurrent \/ ~weatherData.hasList)) =>
        /\ timeline.status = "error"
        /\ timeline.message = "Failed to process weather forecast data"
        /\ timeline.points = <<>>
        /\ forecast.status = "rejected"
        /\ forecast.message = "Failed to process weather forecast data"
        /\ forecast.points = <<>>

\* a payload with a current object and no forecast list, rejected
C6_Witness ==
    /\ phase = "generated"
    /\ weatherData.hasCurrent /\ ~weatherData.hasList
    /\ timeline.status = "error"
    /\ forecast.status = "rejected"

C7_Ascending(ts) == \A i \in 1..(Len(ts) - 1) : ts[i] <= ts[i + 1]

C7_PointTimes == [i \in DOMAIN timeline.points |-> timeline.points[i].timestamp]

\* the current timestamp, then those of the complete steps, as the input has them
C7_InputTimes ==
    <<TimestampOf(weatherData.current.dt)>> \o
        [n \in 1..C5_K |-> TimestampOf(weatherData.list[C5_Nth(n)].dt)]

\* C7, as claimed: whatever the order of the forecast steps' timestamps, the
\* returned points are in ascending timestamp order, the current point first.
C7_AlwaysAscending ==
    (phase = "generated" /\ timeline.status = "ok") =>
        /\ C7_Ascending(C7_PointTimes)
        /\ timeline.points[1].timestamp = TimestampOf(weatherData.current.dt)

\* C7, amended: the first returned point is the current-weather point and the
\* others are the surviving steps in input order; the points are in ascending
\* timestamp order exactly when the current timestamp followed by the
\* surviving steps' timestamps is ascending in the input.
C7_FirstIsCurrentInputOrder ==
    (phase = "generated" /\ timeline.status = "ok") =>
        /\ timeline.points[1].timestamp = TimestampOf(weatherData.current.dt)
        /\ timeline.points[1].weather = CurrentWeatherOf(weatherData.current)
        /\ C7_PointTimes = C7_InputTimes
        /\ C7_Ascending(C7_PointTimes) <=> C7_Ascending(C7_InputTimes)

\* steps given latest first: the timeline starts with the current point and
\* is not ascending
C7_Witness ==
    /\ phase = "generated" /\ timeline.status = "ok"
    /\ Len(timeline.points) = 3
    /\ timeline.points[1].timestamp = TimestampOf(weatherData.current.dt)
    /\ timeline.points[2].timestamp > timeline.points[3].timestamp
    /\ ~C7_Ascending(C7_PointTimes)

C8_Samples == rawData.today \o rawData.tomorrow

\* the number of samples whose height is a number above 0
C8_ValidCount ==
    Cardinality({i \in DOMAIN C8_Samples :
        LET h == parseFloat(C8_Samples[i].tideHeight_mt)
        IN  ~h.nan /\ h.value > 0})

C9_First == AllTides(rawData)[1]
C9_Last  == AllTides(rawData)[Len(AllTides(rawData))]

\* C9, as claimed: when now is earlier than the first valid sample, the
\* previous sample interpolated from has the height and type of the last valid
\* sample and that sample's time minus 24 hours; the next sample is the first
\* valid sample.
C9_VirtualPrevIsLastMinusDay ==
    (phase = "tideDone" /\ calc.invoked /\ now < C9_First.time) =>
        /\ calc.prev.height = C9_Last.height
        /\ calc.prev.type = C9_Last.type
        /\ calc.prev.time = C9_Last.time - 24
        /\ calc.next = C9_First

\* C10: when first.time <= now < last.time over the sorted valid samples, the
\* pair interpolated between is a consecutive pair of real samples with
\* prev.time <= now < next.time, and progress is
\* (now - prev.time) / (next.time - prev.time), in [0, 1), unchanged by the clamp.
C10_BracketingPair ==
    (phase = "tideDone" /\ calc.invoked
        /\ C9_First.time <= now /\ now < C9_Last.time) =>
        /\ \E i \in 1..(Len(AllTides(rawData)) - 1) :
              /\ calc.prev = AllTides(rawData)[i]
              /\ calc.next = AllTides(rawData)[i + 1]
        /\ calc.prev.time <= now /\ now < calc.next.time
        /\ ~calc.progress.nan
        /\ calc.progress.num * (calc.next.time - calc.prev.time)
              = (now - calc.prev.time) * calc.progress.den
        /\ 0 <= calc.progress.num /\ calc.progress.num < calc.progress.den

\* three valid samples, now strictly inside the second interval
C10_Witness ==
    /\ phase = "tideDone" /\ calc.invoked /\ calc.n = 3
    /\ calc.prev = AllTides(rawData)[2]
    /\ calc.next = AllTides(rawData)[3]
    /\ calc.prev.time < now /\ now < calc.next.time
    /\ calc.progress.num > 0

C11_Abs(d) == IF d < 0 THEN -d ELSE d

\* the state C11 gives for a pair of samples and a progress num / den
C11_Expected(prev, next, progress) ==
    IF prev.type = "HIGH" /\ next.type = "LOW" THEN "outgoing"
    ELSE IF prev.type = "LOW" /\ next.type = "HIGH" THEN "incoming"
    ELSE IF C11_Abs(next.height - prev.height) < 10
         THEN IF 2 * progress.num < progress.den THEN "incoming" ELSE "outgoing"
         ELSE IF next.height - prev.height > 0 THEN "incoming" ELSE "outgoing"

\* C11: the tide state is one of incoming / outgoing and is: outgoing from HIGH
\* to LOW, incoming from LOW to HIGH; otherwise, with d = next.height -
\* prev.height, by progress (incoming below 0.5) when |d| < 0.1 m and by the
\* sign of d when |d| >= 0.1 m, so that |d| exactly 0.1 m goes by sign.
C11_StateAsSpecified ==
    (phase = "tideDone" /\ calc.invoked /\ ~calc.progress.nan) =>
        /\ calc.state \in {"incoming", "outgoing"}
        /\ tideResult.data.state = calc.state
        /\ calc.state = C11_Expected(calc.prev, calc.next, calc.progress)

\* twice the exact height at progress n / d, times d^3 (centimetres)
C12_TwiceExact(h1, h2, n, d) ==
    2 * (h1 * d * d * d + (h2 - h1) * (3 * n * n * d - 2 * n * n * n))

\* C12: the height is prev.height + (next.height - prev.height) * (3p^2 - 2p^3)
\* rounded to 2 decimals (within half a centimetre of it): it is prev.height
\* at p = 0, next.height at p = 1, the rounded mean at p = 0.5, and always
\* between the two heights; HIGH 1.0 at T and LOW 0.2 at T + 6 h queried at
\* T + 3 h give 0.6 and outgoing.
C12_SmoothstepHeight ==
    (phase = "tideDone" /\ calc.invoked /\ ~calc.progress.nan) =>
        LET n  == calc.progress.num
            d  == calc.progress.den
            h1 == calc.prev.height
            h2 == calc.next.height
            v  == calc.height.value
        IN  /\ ~calc.height.nan
            /\ tideResult.data.height = v /\ ~tideResult.data.nan
            /\ C11_Abs(2 * d * d * d * v - C12_TwiceExact(h1, h2, n, d)) <= d * d * d
            /\ n = 0 => v = h1
            /\ n = d => v = h2
            /\ 2 * n = d => C11_Abs(2 * v - (h1 + h2)) <= 1
            /\ Min(h1, h2) <= v /\ v <= Max(h1, h2)
            /\ (/\ rawData.today = <<RawTide(6, "1.00", "HIGH"), RawTide(12, "0.20", "LOW")>>
                /\ rawData.tomorrow = <<>>
                /\ now = 9)
                  => v = 60 /\ calc.state = "outgoing"

\* the example of the claim: 0.6 m, outgoing
C12_Witness ==
    /\ phase = "tideDone" /\ calc.invoked
    /\ rawData.today = <<RawTide(6, "1.00", "HIGH"), RawTide(12, "0.20", "LOW")>>
    /\ rawData.tomorrow = <<>>
    /\ now = 9
    /\ 2 * calc.progress.num = calc.progress.den
    /\ tideResult.data.height = 60
    /\ tideResult.data.state = "outgoing"

\* the times of the valid samples of a type that are strictly after now
C13_Later(type) ==
    {C8_Samples[i].tideDateTime : i \in
        {j \in DOMAIN C8_Samples :
            LET h == parseFloat(C8_Samples[j].tideHeight_mt)
            IN  /\ ~h.nan /\ h.value > 0
                /\ toUpperCase(C8_Samples[j].tide_type) = type
                /\ C8_Samples[j].tideDateTime > now}}

C13_IsNext(next, type) ==
    /\ next.found <=> C13_Later(type) # {}
    /\ next.found =>
          /\ next.time \in C13_Later(type)
          /\ \A t \in C13_Later(type) : next.time <= t

\* C13: nextHigh (nextLow) is the time of the earliest valid HIGH (LOW) sample
\* strictly after now, and is absent exactly when there is none; a sample at
\* now is never chosen and none of that type lies between now and it.
C13_NextHighLow ==
    (phase = "tideDone" /\ tideResult.data.present) =>
        /\ C13_IsNext(tideResult.data.nextHigh, "HIGH")
        /\ C13_IsNext(tideResult.data.nextLow, "LOW")

\* a HIGH sample at now and a later one, listed after a still later one: the
\* later one is reported, and there is no next LOW
C13_Witness ==
    /\ phase = "tideDone" /\ tideResult.data.present
    /\ \E i \in DOMAIN C8_Samples :
          C8_Samples[i].tideDateTime = now /\ C8_Samples[i].tide_type = "HIGH"
    /\ Len(C8_Samples) = 3
    /\ C8_Samples[1].tideDateTime > C8_Samples[2].tideDateTime
    /\ C8_Samples[2].tideDateTime > now
    /\ C8_Samples[1].tide_type = "HIGH" /\ C8_Samples[2].tide_type = "HIGH"
    /\ tideResult.data.nextHigh.found
    /\ tideResult.data.nextHigh.time = C8_Samples[2].tideDateTime
    /\ ~tideResult.data.nextLow.found

\* the error messages of getTideData (tides.ts:9, 33, 36, 40-43, 101)
C14_TideErrors ==
    {"Marine API key is not configured", "Network error - please check your connection",
     "Invalid Marine API key", "Marine API rate limit exceeded",
     "Marine service error (500)", "Unexpected token"}

\* C14: when the tide fetch fails and the weather fetch succeeds,
\* fetchForecastData resolves with the timeline of the weather result, whose
\* points carry no tide; whenever it rejects, it rejects with the error of the
\* weather fetch.
C14_TideFailureDegrades ==
    phase = "fetch" =>
        /\ (tidePromise.state = "rejected" /\ weatherPromise.state = "fulfilled") =>
              /\ forecast.status = "resolved"
              /\ Len(forecast.points) >= 1
              /\ \A i \in DOMAIN forecast.points : forecast.points[i].tide = NoTide
              /\ forecast.points = generateForecastTimeline(weatherData, NoTide).points
        /\ forecast.status = "rejected" =>
              /\ weatherPromise.state = "rejected"
              /\ forecast.message = weatherPromise.message
        /\ tidePromise.state = "rejected" => tidePromise.message \in C14_TideErrors

\* the tide fetch failed on the rate limit, before or after the weather
\* arrived, and the two-point timeline is there
C14_Witness ==
    /\ phase = "fetch"
    /\ tidePromise = Promise("rejected", "Marine API rate limit exceeded")
    /\ weatherPromise.state = "fulfilled"
    /\ forecast.status = "resolved"
    /\ Len(forecast.points) = 2
    /\ forecast.points[2].tide = NoTide

\* C15: fetchForecastData has an outcome only once both the weather fetch and
\* the tide fetch have settled.
C15_OutcomeAfterBothSettle ==
    (phase = "fetch" /\ forecast.status # "none") =>
        weatherPromise.state # "pending" /\ tidePromise.state # "pending"

\* what does hold: a resolution comes only after both have settled, and the
\* only outcome before that is the rejection by a weather failure
C15_ResolutionAfterBothSettle ==
    phase = "fetch" =>
        /\ forecast.status = "resolved" =>
              weatherPromise.state = "fulfilled" /\ tidePromise.state # "pending"
        /\ (forecast.status # "none" /\ tidePromise.state = "pending") =>
              forecast.status = "rejected" /\ weatherPromise.state = "rejected"
        /\ (weatherPromise.state # "pending" /\ tidePromise.state # "pending") =>
              forecast.status # "none"

C15_Witness ==
    /\ phase = "fetch"
    /\ forecast.status = "rejected"
    /\ weatherPromise.state = "rejected"
    /\ tidePromise.state = "pending"

\* C16: two calls of getMoonPhase with the same instant return the same
\* MoonPhase, whatever the wall clock at each call.
C16_SameInstantSameMoonPhase ==
    phase = "moon" =>
        \A i, j \in DOMAIN moonCalls : moonCalls[i].moon = moonCalls[j].moon

\* C17: the moon age of every instant, also of those before the anchor new
\* moon, is at least 0 and less than 29.530588853 days.
C17_AgeInRange ==
    phase = "moon" =>
        \A i \in DOMAIN moonCalls :
            moonCalls[i].moonAge >= 0 /\ moonCalls[i].moonAge < 2953059

\* the band of an age: its lower threshold included, its upper one not
C18_Band(age) ==
    CASE age < 184566                      -> "New Moon"
      [] 184566 <= age /\ age < 553699     -> "Waxing Crescent"
      [] 553699 <= age /\ age < 922831     -> "First Quarter"
      [] 922831 <= age /\ age < 1291963    -> "Waxing Gibbous"
      [] 1291963 <= age /\ age < 1661096   -> "Full Moon"
      [] 1661096 <= age /\ age < 2030228   -> "Waning Gibbous"
      [] 2030228 <= age /\ age < 2399361   -> "Last Quarter"
      [] 2399361 <= age /\ age < 2768493   -> "Waning Crescent"
      [] 2768493 <= age                    -> "New Moon"

C18_Thresholds ==
    <<184566, 553699, 922831, 1291963, 1661096, 2030228, 2399361, 2768493>>

C18_Above ==
    <<"Waxing Crescent", "First Quarter", "Waxing Gibbous", "Full Moon",
      "Waning Gibbous", "Last Quarter", "Waning Crescent", "New Moon">>

\* C18: the phase name is the band of the age, an age equal to a threshold
\* being in the band above it, and it is one of the 8 names.
C18_PhaseByThresholds ==
    phase = "moon" =>
        \A i \in DOMAIN moonCalls :
            /\ moonCalls[i].moon.phase = C18_Band(moonCalls[i].moonAge)
            /\ \A k \in 1..8 : moonCalls[i].moonAge = C18_Thresholds[k] =>
                  moonCalls[i].moon.phase = C18_Above[k]
            /\ moonCalls[i].moon.phase \in
                  {"New Moon", "Waxing Crescent", "First Quarter", "Waxing Gibbous",
                   "Full Moon", "Waning Gibbous", "Last Quarter", "Waning Crescent"}

\* an age of exactly 1.84566 days, named Waxing Crescent
C18_Witness ==
    /\ phase = "moon"
    /\ date = MoonDate(FALSE, 0, 184566)
    /\ Len(moonCalls) >= 1
    /\ moonCalls[1].moonAge = 184566
    /\ moonCalls[1].moon.phase = "Waxing Crescent"

C19_Has(r) == \E i \in DOMAIN scored.reasons : scored.reasons[i] = r

\* C19: every factor with a non-zero adjustment has the reason of the band the
\* score used, no reason of another band is emitted, and the 'Strong winds'
\* reason is there exactly when the wind adjustment is negative.
C19_ReasonsInLockstep ==
    phase = "scored" =>
        /\ C19_Has("Strong winds may affect fishing conditions")
              <=> WindAdjustment(weather) < 0
        /\ C19_Has("Light winds under 5 mph - ideal for fishing")
              <=> WindAdjustment(weather) > 0
        /\ TemperatureAdjustment(weather) # 0 =>
              \/ C19_Has("Optimal water temperature for fish activity")
              \/ C19_Has("Cold temperatures may reduce fish activity")
              \/ C19_Has("Warm temperatures - fish may be deeper in water")
        /\ C19_Has("Optimal water temperature for fish activity")
              <=> TemperatureAdjustment(weather) = 10
        /\ C19_Has("Partial cloud cover providing good visibility")
              <=> CloudAdjustment(weather) = 10
        /\ C19_Has("Heavy cloud cover may affect fish feeding")
              <=> CloudAdjustment(weather) = -5
        /\ PrecipitationAdjustment(weather) # 0 =>
              C19_Has("High chance of rain may affect water conditions")
        /\ C19_Has("High chance of rain may affect water conditions") =>
              PrecipitationAdjustment(weather) = -20
        /\ PressureAdjustment(weather) # 0 =>
              Len(scored.reasons) > Len(generateReasons(
                  [weather EXCEPT !.pressure = 1000], tideInfo))
        /\ TideStateAdjustment(tideInfo) # 0 <=>
              \/ C19_Has("Incoming tide bringing food sources")
              \/ C19_Has("Outgoing tide concentrating fish in deeper areas")
        /\ TideHeightAdjustment(tideInfo) # 0 =>
              Len(scored.reasons) > Len(generateReasons(
                  weather, [tideInfo EXCEPT !.height = 0]))

\* the part of C19 that does hold: the reasons of the cloud cover and of the
\* tide state follow the score's bands
C19_CloudAndTideStateInLockstep ==
    phase = "scored" =>
        /\ C19_Has("Partial cloud cover providing good visibility")
              <=> CloudAdjustment(weather) = 10
        /\ C19_Has("Heavy cloud cover may affect fish feeding")
              <=> CloudAdjustment(weather) = -5
        /\ TideStateAdjustment(tideInfo) # 0 <=>
              \/ C19_Has("Incoming tide bringing food sources")
              \/ C19_Has("Outgoing tide concentrating fish in deeper areas")

\* a wind of exactly 15 mph: no wind adjustment, and the 'Strong winds' reason
C19_StrongWindsWithoutPenalty ==
    /\ phase = "scored"
    /\ weather.windSpeed = 15
    /\ WindAdjustment(weather) = 0
    /\ C19_Has("Strong winds may affect fishing conditions")

C20_StateTerm(t) == IF t.state = "incoming" \/ t.state = "outgoing" THEN 10 ELSE 0

\* the height term: 5 inside the 0.5-2 m band, 0 outside; the two endpoints
\* are left open here
C20_HeightTerms(t) ==
    IF t.height > 50 /\ t.height < 200 THEN {5}
    ELSE IF t.height < 50 \/ t.height > 200 THEN {0}
    ELSE {0, 5}

C20_Clamp(x) == IF x < 0 THEN 0 ELSE IF x > 100 THEN 100 ELSE x

\* C20: the unclamped score with a tide reading is the unclamped score without
\* tide plus 10 for an incoming or outgoing state plus 5 for a height in the
\* 0.5-2 m band, each term whatever the other; without a reading neither is
\* applied; so a tide reading never lowers the score.
C20_TideTermsAdditive ==
    phase = "scored" =>
        LET base == UnclampedScore(weather, NoTide)
        IN  /\ tideInfo.present =>
                  \E ht \in C20_HeightTerms(tideInfo) :
                      /\ UnclampedScore(weather, tideInfo)
                            = base + C20_StateTerm(tideInfo) + ht
                      /\ scored.score
                            = C20_Clamp(base + C20_StateTerm(tideInfo) + ht)
            /\ ~tideInfo.present => scored.score = C20_Clamp(base)
            /\ base = 70 + WindAdjustment(weather) + TemperatureAdjustment(weather)
                         + CloudAdjustment(weather) + PrecipitationAdjustment(weather)
                         + PressureAdjustment(weather)
            /\ scored.score >= C20_Clamp(base)

\* a reading inside the height band whose state is neither incoming nor
\* outgoing: 5 more than without tide, unclamped and clamped
C20_Witness ==
    /\ phase = "scored"
    /\ tideInfo.present /\ tideInfo.state = "slack" /\ tideInfo.height = 120
    /\ UnclampedScore(weather, tideInfo) = UnclampedScore(weather, NoTide) + 5
    /\ scored.score = 45
    /\ C20_Clamp(UnclampedScore(weather, NoTide)) = 40

\* C21: every wind speed from 15 to 20, both included, gets the wind
\* adjustment -10, and only the speeds from 5 to below 15 get 0.
C21_WindBand15To20 ==
    phase = "scored" =>
        /\ (15 <= weather.windSpeed /\ weather.windSpeed <= 20) =>
              /\ WindAdjustment(weather) = -10
              /\ scored.score = C20_Clamp(UnclampedScore([weather EXCEPT !.windSpeed = 10],
                                                          tideInfo) - 10)
        /\ WindAdjustment(weather) = 0 =>
              (5 <= weather.windSpeed /\ weather.windSpeed < 15)

\* C22: a tide reading of exactly 0.5 m or exactly 2 m gets the +5 of the
\* height band.
C22_EndpointsInBand ==
    (phase = "scored" /\ tideInfo.present /\ tideInfo.height \in {50, 200}) =>
        /\ TideHeightAdjustment(tideInfo) = 5
        /\ scored.score = C20_Clamp(UnclampedScore(weather, NoTide)
                                      + TideStateAdjustment(tideInfo) + 5)

\* C24 as stated: the all-worst-case snapshot without tide sums to less than 0
\* before the clamp and is reported as 0.
C24_WorstCaseNegative ==
    (phase = "scored" /\ ~tideInfo.present /\ weather = C2_Worst) =>
        UnclampedScore(weather, tideInfo) < 0 /\ scored.score = 0

\* C24, amended: the all-worst-case snapshot without tide sums to 10 before
\* the clamp and is reported as 10; no input sums to less, so the lower clamp
\* is reached by none.
C24_WorstCaseIsTen ==
    phase = "scored" =>
        /\ (~tideInfo.present /\ weather = C2_Worst) =>
              UnclampedScore(weather, tideInfo) = 10 /\ scored.score = 10
        /\ UnclampedScore(weather, tideInfo) >= 10
        /\ scored.score >= 10

\* every factor in its most penalised band, no tide: 70 - 20 - 15 - 5 - 20
C24_Witness ==
    /\ phase = "scored"
    /\ ~tideInfo.present
    /\ weather.windSpeed > 20 /\ weather.temperature > 85 /\ weather.cloudCover > 90
    /\ weather.precipitation > 50 /\ weather.pressure < 1010
    /\ UnclampedScore(weather, tideInfo) = 10
    /\ scored.score = 10

\* C25: whenever calculateCurrentTide runs, the pair it interpolates between,
\* real or virtual, brackets the query instant: prev.time <= now < next.time,
\* so the interval has a positive duration.
C25_PairBracketsNow ==
    (phase = "tideDone" /\ calc.invoked) =>
        /\ calc.prev.time <= now
        /\ now < calc.next.time
        /\ calc.totalDuration > 0

\* C23: a reading that getTideData returns at instant t has the height and
\* the state that calculateCurrentTide gives for t, never those computed by
\* an earlier call for an earlier instant.
C23_ReadingRecomputed ==
    (phase = "cache" /\ cacheOp.op = "getTideData" /\ tideResult.data.present) =>
        /\ now = cacheOp.at
        /\ tideResult.data.height = getTideData(rawData, now).data.height
        /\ tideResult.data.state = getTideData(rawData, now).data.state

\* C28: getCachedData returns a value only if it is the value setCachedData
\* last stored for the key and coordinates, stored at most CACHE_DURATION
\* before the read; an older entry is removed by the read, which returns null;
\* a storage or parse error gives null and no exception.
C28_FreshMatchingEntries ==
    (phase = "cache" /\ cacheOp.op = "get") =>
        LET last == lastSet[CacheKeyOf(cacheOp.key, cacheOp.coordinates)]
        IN  /\ cacheOp.outcome \in {"value", "null"}
            /\ cacheOp.outcome = "value" =>
                  /\ last.written
                  /\ cacheOp.data = last.data
                  /\ cacheOp.at - last.at <= CACHE_DURATION
            /\ (last.written /\ cacheOp.at - last.at > CACHE_DURATION
                  /\ ~cacheOp.storageError) =>
                  /\ cacheOp.outcome = "null"
                  /\ storage[CacheKeyOf(cacheOp.key, cacheOp.coordinates)] = Absent
            /\ cacheOp.storageError => cacheOp.outcome = "null"

\* what does hold of getCachedData: the same, with the value returned being
\* the one stored after its passage through JSON
C28_FreshEntriesThroughJSON ==
    (phase = "cache" /\ cacheOp.op = "get") =>
        LET last == lastSet[CacheKeyOf(cacheOp.key, cacheOp.coordinates)]
        IN  /\ cacheOp.outcome \in {"value", "null"}
            /\ cacheOp.outcome = "value" =>
                  /\ last.written
                  /\ cacheOp.data = JSONParse(JSONStringify(
                         CacheEntry(last.data, last.at, cacheOp.coordinates))).data
                  /\ cacheOp.at - last.at <= CACHE_DURATION
            /\ (last.written /\ cacheOp.at - last.at > CACHE_DURATION
                  /\ ~cacheOp.storageError) =>
                  /\ cacheOp.outcome = "null"
                  /\ storage[CacheKeyOf(cacheOp.key, cacheOp.coordinates)] = Absent
            /\ cacheOp.storageError => cacheOp.outcome = "null"

RECURSIVE C26_Sum(_)
C26_Sum(factors) ==
    IF factors = <<>> THEN 0
    ELSE factors[1].impact + C26_Sum(SubSeq(factors, 2, Len(factors)))

\* C26: 70 plus the impacts that ScoreInfo lists, capped between 0 and 100, is
\* the score of the point.
C26_BreakdownAddsUp ==
    phase = "shown" =>
        scored.score = C20_Clamp(70 + C26_Sum(scoreFactors))

\* what does hold: the breakdown adds up when there is no moon factor with an
\* impact and the tide is absent or incoming or outgoing
C26_AddsUpWithoutMoon ==
    (/\ phase = "shown"
     /\ ~(moonPhase.present /\ moonPhase.phase \in {"Full Moon", "New Moon"})
     /\ tideInfo.present => tideInfo.state \in {"incoming", "outgoing"}) =>
        scored.score = C20_Clamp(70 + C26_Sum(scoreFactors))

\* C27: cacheMiddleware stores and replays only successful responses: no body
\* that a route handler sent with an error status is held in apiCache, and no
\* request is answered from the cache with an error body under status 200.
C27_OnlySuccessesCached ==
    phase = "server" =>
        /\ \A k \in DOMAIN apiCache : ~IsErrorBody(apiCache[k].data)
        /\ response.cached => ~IsErrorBody(response.body)

\* the attempts of a call that failed
C29_Failed(c) == {j \in 1..Len(c.attempts) : ~c.attempts[j].ok}

\* what holds of a call of fetchWithRetry in every state
C29_Bounded ==
    LET c == retryCall
        n == Len(c.attempts)
    IN  phase = "retry" =>
          /\ c.requests <= c.retries
          /\ c.requests = n + (IF c.pc = "fetch" THEN 1 ELSE 0)
          /\ \A j \in 1..n : c.attempts[j].ok => j = n /\ c.pc = "returned"
          /\ c.pc = "returned" =>
                /\ n >= 1 /\ c.attempts[n].ok
                /\ c.body = c.attempts[n].body
          /\ Len(c.waits) = Cardinality({j \in C29_Failed(c) : j - 1 < c.retries - 1})
          /\ \A j \in 1..Len(c.waits) : c.waits[j] = Min(1000 * Pow2(j - 1), 10000)
          /\ c.pc = "fetch" => Len(c.waits) = c.i /\ n = c.i
          /\ c.pc = "rejected" /\ c.retries >= 1 =>
                /\ n = c.retries
                /\ C29_Failed(c) = 1..n
                /\ c.thrown = c.attempts[n].error

\* a call that settled does nothing more
C29_Settled ==
    retryCall.pc \in {"returned", "rejected"} => retryCall' = retryCall

\* C29: fetchWithRetry(url, options, retries) always terminates after at most
\* `retries` upstream requests; it returns the parsed body of the first attempt
\* that succeeds and issues no request after it; after failed attempt i with
\* i < retries - 1 it waits min(1000 * 2^i, 10000) ms before attempt i + 1; after
\* `retries` failed attempts it rejects with the error of the last attempt.
C29_RetryTerminates ==
    /\ []C29_Bounded
    /\ [][C29_Settled]_vars
    /\ <>(phase = "retry" => retryCall.pc \in {"returned", "rejected"})

\* five attempts failed, the fifth wait was capped at 10000 ms, and the sixth
\* attempt gave the body that was returned
C29_Witness ==
    /\ phase = "retry"
    /\ retryCall.pc = "returned"
    /\ retryCall.requests = 6
    /\ retryCall.waits = <<1000, 2000, 4000, 8000, 10000>>

\* all of three attempts failed and the call rejected with the third error
C29_WitnessRejected ==
    /\ phase = "retry"
    /\ retryCall.pc = "rejected"
    /\ retryCall.retries = 3
    /\ retryCall.thrown = AttemptError(2, "AbortError")

\* in every state an open circuit has counted at least `threshold` failures, and
\* a call that found the circuit open less than resetTimeout after lastFailure
\* rejected with 'Circuit breaker is open' and issued no request
C30_OpenCircuit ==
    phase = "breaker" =>
        /\ circuitBreaker.isOpen => circuitBreaker.failures >= threshold
        /\ \A c \in Callers :
              LET call == breakerCalls[c]
              IN  call.openAtStart /\ call.ageAtStart < resetTimeout =>
                     /\ call.pc = "rejected"
                     /\ call.thrown = "Circuit breaker is open"
                     /\ call.requests = 0

\* a step in which an attempt of some call succeeds leaves failures = 0 and the
\* circuit closed
C30_SuccessCloses ==
    (\E c \in Callers : breakerCalls[c].pc = "json" /\ breakerCalls'[c].pc = "returned")
        => circuitBreaker'.failures = 0 /\ ~circuitBreaker'.isOpen

\* C30: in the circuit-breaker variant of fetchWithRetry, across any interleaving
\* of concurrent calls, isOpen implies failures >= threshold (5) in every
\* reachable state; every call that starts while the circuit is open and less
\* than resetTimeout (30 s) after lastFailure rejects with 'Circuit breaker is
\* open' without issuing an upstream request; and a successful attempt sets
\* failures to 0 and closes the circuit.
C30_BreakerHolds ==
    /\ []C30_OpenCircuit
    /\ [][C30_SuccessCloses]_vars

\* the circuit is open on five failures of two calls, and a call that started
\* 15 s after the last failure was turned away
C30_Witness ==
    /\ phase = "breaker"
    /\ circuitBreaker.isOpen
    /\ circuitBreaker.failures = threshold
    /\ \E c \in Callers :
          /\ breakerCalls[c].openAtStart
          /\ breakerCalls[c].ageAtStart = 1
          /\ breakerCalls[c].thrown = "Circuit breaker is open"

\* a call in flight when the circuit opened succeeded and closed it
C30_WitnessClosedBySuccess ==
    /\ phase = "breaker"
    /\ ~circuitBreaker.isOpen
    /\ circuitBreaker.failures = 0
    /\ \E c, d \in Callers :
          /\ breakerCalls[c].pc = "returned"
          /\ breakerCalls[d].thrown = "Circuit breaker triggered"

====
